---- MODULE Spec2Model ----
(***************************************************************************)
(* Model of the wash-monitoring bot: the status evaluator                  *)
(* (app/formatters.py), the TMS client with its retry on 401               *)
(* (app/services/tms_client.py) and the poll cycle with its bad-state      *)
(* table (app/bot.py).                                                     *)
(*                                                                         *)
(* Python values: None is the string NONE; a missing or None list is the   *)
(* empty sequence (the code tests lists only with "if not mods"); a        *)
(* missing or zero unit id is 0 (the code tests ids only with "or" and     *)
(* "if not unit_id").                                                      *)
(***************************************************************************)
EXTENDS Integers, Sequences, FiniteSets, TLC

VARIABLES
    cfg,              \* Config read by _poll_and_send: wash_ids, tms_email, tms_password
    prev_bad,         \* bot._prev_bad: unit id -> fingerprint
    last_poll_ok_at,  \* bot._last_poll_ok_at: 0 is None, else the time of the last good poll
    now,              \* the clock read by datetime.now(), one tick per handler run
    tms,              \* the TMSClient of the running/last handler: cookie_value, _http
    log,              \* network events of the last call, in order
    sent,             \* notifications sent by the last handler run, in order
    outcome,          \* what the last call did: result, returned data, evaluated units
    truth,            \* ghost: bad units of the last successfully fetched response
    failedSinceOk,    \* ghost: cycles whose fetch failed since the last good poll
    owedRecovered,    \* ghost: per unit, transitions bad -> not bad minus 'recovered' listings
    owedChanged,      \* ghost: per unit, fingerprint changes minus 'state updated' listings
    jobs              \* invocations of _poll_and_send suspended at an await: position and locals

vars == <<cfg, prev_bad, last_poll_ok_at, now, tms, log, sent, outcome,
          truth, failedSinceOk, owedRecovered, owedChanged, jobs>>

NONE == "<None>"

(***************************************************************************)
(* Bounds                                                                  *)
(***************************************************************************)
MaxCycles == 3      \* handler runs per behaviour (caps the clock)
MaxResp == 2        \* unit snapshots in one fetch_units response
MaxRequests == 5    \* responses the server script of one client call holds
MaxModules == 2     \* modules in the "modules" list of an evaluated unit

(***************************************************************************)
(* SeverityModel: app/formatters.py                                        *)
(***************************************************************************)
PROBLEM_STATUSES == {"error", "alarm", "warning", "offline"}

\* SEVERITY_RANK.get(s, 0)
SEVERITY_RANK(s) ==
    CASE s = "ok" -> 0
      [] s = "online" -> 0
      [] s = "warning" -> 1
      [] s = "offline" -> 1
      [] s = "alarm" -> 2
      [] s = "error" -> 2
      [] OTHER -> 0

\* str.strip().lower() over the raw strings the model feeds in; every other
\* string of the model is already stripped and lower-case.
StripLower(s) ==
    CASE s = "OK" -> "ok"
      [] s = " Warning " -> "warning"
      [] s = "ERROR" -> "error"
      [] s = "Alarm" -> "alarm"
      [] s = "  " -> ""
      [] s = "Connection Failed " -> "connection failed"
      [] OTHER -> s

Truthy(s) == s # NONE /\ s # ""

_norm_status(s) == IF ~Truthy(s) THEN "ok" ELSE StripLower(s)

\* mutant: the second argument wins a tie
_worst_second(a, b) == IF SEVERITY_RANK(a) > SEVERITY_RANK(b) THEN a ELSE b

\* mutant: a status without a rank is replaced by "ok"
_worst_ranked(a, b) ==
    LET known == {"ok", "online", "warning", "offline", "alarm", "error"}
        x == IF SEVERITY_RANK(a) >= SEVERITY_RANK(b) THEN a ELSE b
    IN IF x \in known THEN x ELSE "ok"

_worst(a, b) == IF SEVERITY_RANK(a) >= SEVERITY_RANK(b) THEN a ELSE b

\* mutant: the text is compared as it comes
_is_ignorable_warning_exact(status, text) ==
    _norm_status(status) = "warning" /\ text = "connection failed"

_is_ignorable_warning(status, text) ==
    LET st == _norm_status(status)
        tx == StripLower(IF Truthy(text) THEN text ELSE "")
    IN st = "warning" /\ tx = "connection failed"

(***************************************************************************)
(* StatusTreeWalker: a module is [full_name, name, id, status, text,       *)
(* modules]; an entry is <<display name, status, text>>.                   *)
(***************************************************************************)
ModuleName(m) ==
    IF Truthy(m.full_name) THEN m.full_name
    ELSE IF Truthy(m.name) THEN m.name
    ELSE IF Truthy(m.id) THEN m.id
    ELSE "module"

RECURSIVE _collect_problem_modules(_, _)
_collect_problem_modules(mods, out) ==
    IF mods = <<>> THEN out
    ELSE LET m == Head(mods)
             st == _norm_status(m.status)
             out1 == IF st # "ok"
                     THEN Append(out, <<ModuleName(m), st, m.text>>)
                     ELSE out
             out2 == _collect_problem_modules(m.modules, out1)
         IN _collect_problem_modules(Tail(mods), out2)

\* the two walks every evaluator function makes: wash.modules, then status.modules
CollectBoth(wash) ==
    _collect_problem_modules(wash.status.modules,
        _collect_problem_modules(wash.modules, <<>>))

RECURSIVE FilterIgnorable(_)
FilterIgnorable(problems) ==
    IF problems = <<>> THEN <<>>
    ELSE LET p == Head(problems)
             rest == FilterIgnorable(Tail(problems))
         IN IF _is_ignorable_warning(p[2], p[3]) THEN rest ELSE <<p>> \o rest

(***************************************************************************)
(* UnitEvaluator                                                           *)
(***************************************************************************)
\* mutant: "alarm" at the top level counts like "error"
is_bad_wash_alarm(wash) ==
    LET problems == FilterIgnorable(CollectBoth(wash))
        top == _norm_status(wash.status.type)
        online == _norm_status(wash.status.online_type)
    IN IF problems # <<>> THEN TRUE
       ELSE IF top \in {"error", "alarm"} \/ online \in {"error", "alarm"} THEN TRUE
       ELSE FALSE

is_bad_wash(wash) ==
    LET problems == FilterIgnorable(CollectBoth(wash))
        top == _norm_status(wash.status.type)
        online == _norm_status(wash.status.online_type)
    IN IF problems # <<>> THEN TRUE
       ELSE IF top = "error" \/ online = "error" THEN TRUE
       ELSE FALSE

RECURSIVE WorstFold(_, _)
WorstFold(worst, tmp) ==
    IF tmp = <<>> THEN worst
    ELSE WorstFold(_worst(worst, _norm_status(Head(tmp)[2])), Tail(tmp))

_worst_status_for_wash(wash) ==
    LET top == _norm_status(wash.status.type)
        online == _norm_status(wash.status.online_type)
        worst == WorstFold(_worst(top, online), CollectBoth(wash))
    IN IF worst = "" THEN "ok" ELSE worst

\* format_washes' key (name, status, text or "")
EntryKey(p) == <<p[1], p[2], IF Truthy(p[3]) THEN p[3] ELSE "">>

RECURSIVE Unique(_, _)
Unique(problems, seen) ==
    IF problems = <<>> THEN <<>>
    ELSE LET p == Head(problems)
         IN IF EntryKey(p) \in seen
            THEN Unique(Tail(problems), seen)
            ELSE <<p>> \o Unique(Tail(problems), seen \cup {EntryKey(p)})

\* The two helpers app/bot.py imports for the fingerprint.
worst_status_for_wash_public(wash) == _worst_status_for_wash(wash)

problem_modules_filtered_public(wash) ==
    Unique(FilterIgnorable(CollectBoth(wash)), {})

RECURSIVE JoinParts(_)
JoinParts(parts) ==
    IF Len(parts) = 1 THEN parts[1]
    ELSE parts[1] \o "|" \o JoinParts(Tail(parts))

RECURSIVE FingerprintParts(_)
FingerprintParts(mods) ==
    IF mods = <<>> THEN <<>>
    ELSE LET p == Head(mods)
             part == IF Truthy(p[3])
                     THEN p[1] \o ":" \o p[2] \o ":" \o p[3]
                     ELSE p[1] \o ":" \o p[2]
         IN <<part>> \o FingerprintParts(Tail(mods))

\* mutant: the fingerprint carries a mark of the poll cycle it was taken in
_fingerprint_stamped(w) ==
    LET worst == worst_status_for_wash_public(w)
        mods == problem_modules_filtered_public(w)
        stamp == IF now % 2 = 0 THEN "even" ELSE "odd"
    IN JoinParts(<<"worst=" \o worst>> \o FingerprintParts(mods) \o <<stamp>>)

_fingerprint(w) ==
    LET worst == worst_status_for_wash_public(w)
        mods == problem_modules_filtered_public(w)
    IN JoinParts(<<"worst=" \o worst>> \o FingerprintParts(mods))

(***************************************************************************)
(* TMSClient: app/services/tms_client.py                                   *)
(*                                                                         *)
(* A call runs against a script [auth, api]: the responses the server      *)
(* gives, in order, to the sign-in requests and to the API requests of the *)
(* call.  A sign-in response is [status, cookie]; an API response is       *)
(* [status, parsable, body, next_id].  Status 0 is a transport error       *)
(* raised by httpx, cookie is the tms_v3_auth_cookie ("" when absent),     *)
(* body is the JSON array of units or the page's items, next_id is the     *)
(* page's next_id ("" for null).  A call state c carries the client's      *)
(* fields, the rest of the script, the event log, the raised exception     *)
(* ("" for none) and the returned value; starved names the stream ("auth", *)
(* "api") the call first found empty, and a request without a response     *)
(* ends as a transport error.                                              *)
(***************************************************************************)
NewClient(callback) ==
    [cookie_value |-> "", http |-> FALSE, on_token_refresh |-> callback]

Call(client, script) ==
    [cookie_value |-> client.cookie_value, http |-> client.http,
     on_token_refresh |-> client.on_token_refresh,
     net |-> script, log |-> <<>>, exc |-> "", val |-> "", ret |-> <<>>,
     status |-> 0, starved |-> ""]

ClientOf(c) ==
    [cookie_value |-> c.cookie_value, http |-> c.http,
     on_token_refresh |-> c.on_token_refresh]

\* an event of a call: a request with the token it carried, its next-id
\* parameter (for a sign-in: the cookie the response set) and the status of the
\* response; the callback with the stored token
Event(ev, tok, arg, status) == [ev |-> ev, tok |-> tok, arg |-> arg, status |-> status]

\* the response to the next sign-in request, and the call state after sending it
RespAuth(c) ==
    IF c.net.auth = <<>> THEN [status |-> 0, cookie |-> ""] ELSE Head(c.net.auth)

SentAuth(c) ==
    [c EXCEPT !.log = Append(@, Event("sign_in", "", RespAuth(c).cookie, RespAuth(c).status)),
              !.net.auth = IF @ = <<>> THEN @ ELSE Tail(@),
              !.starved = IF @ = "" /\ c.net.auth = <<>> THEN "auth" ELSE @]

\* the response to the next API request, and the call state after sending it
RespApi(c) ==
    IF c.net.api = <<>>
    THEN [status |-> 0, parsable |-> FALSE, body |-> <<>>, next_id |-> ""]
    ELSE Head(c.net.api)

SentApi(c, ev, tok, arg) ==
    [c EXCEPT !.log = Append(@, Event(ev, tok, arg, RespApi(c).status)),
              !.net.api = IF @ = <<>> THEN @ ELSE Tail(@),
              !.starved = IF @ = "" /\ c.net.api = <<>> THEN "api" ELSE @,
              !.status = RespApi(c).status]

Raise(c, e) == [c EXCEPT !.exc = e]

\* httpx.Response.is_success
IsSuccess(status) == status >= 200 /\ status <= 299

\* mutant: a response without the auth cookie is taken as a sign-in
sign_in_any_cookie(c) ==
    IF ~c.http THEN Raise(c, "AssertionError")
    ELSE LET resp == RespAuth(c)
             c1 == SentAuth(c)
         IN IF resp.status = 0 THEN Raise(c1, "TransportError")
            ELSE IF ~IsSuccess(resp.status) THEN Raise(c1, "HTTPStatusError")
            ELSE [c1 EXCEPT !.val = resp.cookie]

sign_in(c) ==
    IF ~c.http THEN Raise(c, "AssertionError")
    ELSE LET resp == RespAuth(c)
             c1 == SentAuth(c)
         IN IF resp.status = 0 THEN Raise(c1, "TransportError")
            ELSE IF ~IsSuccess(resp.status) THEN Raise(c1, "HTTPStatusError")
            ELSE IF resp.cookie = "" THEN Raise(c1, "ValueError")
            ELSE [c1 EXCEPT !.val = resp.cookie]

\* mutant: the token held is not looked at, every call signs in
_ensure_token_always(c) ==
    LET c1 == sign_in(c)
    IN IF c1.exc # "" THEN c1 ELSE [c1 EXCEPT !.cookie_value = c1.val]

_ensure_token(c) ==
    IF c.cookie_value = ""
    THEN LET c1 == sign_in(c)
         IN IF c1.exc # "" THEN c1 ELSE [c1 EXCEPT !.cookie_value = c1.val]
    ELSE c

__aenter__(c) == _ensure_token([c EXCEPT !.http = TRUE])

__aexit__(c) ==
    IF c.http
    THEN [c EXCEPT !.http = FALSE, !.log = Append(@, Event("aclose", "", "", 0))]
    ELSE c

\* mutant: the token of the new sign-in is not stored
_refresh_token_no_store(c) ==
    LET c1 == sign_in(c)
    IN IF c1.exc # "" THEN c1
       ELSE IF c1.on_token_refresh
            THEN [c1 EXCEPT !.log = Append(@, Event("on_token_refresh",
                                                    c1.cookie_value, "", 0))]
            ELSE c1

\* mutant: the callback is invoked before the new token is stored
_refresh_token_early(c) ==
    LET c1 == sign_in(c)
    IN IF c1.exc # "" THEN c1
       ELSE LET c2 == IF c1.on_token_refresh
                      THEN [c1 EXCEPT !.log = Append(@, Event("on_token_refresh",
                                                              c1.cookie_value, "", 0))]
                      ELSE c1
            IN [c2 EXCEPT !.cookie_value = c1.val]

_refresh_token(c) ==
    LET c1 == sign_in(c)
    IN IF c1.exc # "" THEN c1
       ELSE LET c2 == [c1 EXCEPT !.cookie_value = c1.val]
            IN IF c2.on_token_refresh
               THEN [c2 EXCEPT !.log = Append(@, Event("on_token_refresh",
                                                       c2.cookie_value, "", 0))]
               ELSE c2

\* the value of the Cookie header built by _headers()
_headers(c) == c.cookie_value

\* mutant: the retry follows any error status, not only 401
RECURSIVE fetch_units_any_error(_, _)
fetch_units_any_error(c, _retried) ==
    IF ~c.http THEN Raise(c, "AssertionError")
    ELSE LET headers == _headers(c)
             resp == RespApi(c)
             c1 == SentApi(c, "post", headers, "")
         IN IF resp.status = 0 THEN Raise(c1, "TransportError")
            ELSE IF resp.status >= 400 /\ ~_retried
            THEN LET c2 == _refresh_token(c1)
                 IN IF c2.exc # "" THEN c2 ELSE fetch_units_any_error(c2, TRUE)
            ELSE IF ~IsSuccess(resp.status) THEN Raise(c1, "HTTPStatusError")
            ELSE IF ~resp.parsable THEN Raise(c1, "JSONDecodeError")
            ELSE [c1 EXCEPT !.ret = resp.body]

\* mutant: the retry is not marked as one, every 401 is followed by another
RECURSIVE fetch_units_forever(_, _)
fetch_units_forever(c, _retried) ==
    IF ~c.http THEN Raise(c, "AssertionError")
    ELSE LET headers == _headers(c)
             resp == RespApi(c)
             c1 == SentApi(c, "post", headers, "")
         IN IF resp.status = 0 THEN Raise(c1, "TransportError")
            ELSE IF resp.status = 401 /\ ~_retried
            THEN LET c2 == _refresh_token(c1)
                 IN IF c2.exc # "" THEN c2 ELSE fetch_units_forever(c2, _retried)
            ELSE IF ~IsSuccess(resp.status) THEN Raise(c1, "HTTPStatusError")
            ELSE IF ~resp.parsable THEN Raise(c1, "JSONDecodeError")
            ELSE [c1 EXCEPT !.ret = resp.body]

RECURSIVE fetch_units(_, _)
fetch_units(c, _retried) ==
    IF ~c.http THEN Raise(c, "AssertionError")
    ELSE LET headers == _headers(c)
             resp == RespApi(c)
             c1 == SentApi(c, "post", headers, "")
         IN IF resp.status = 0 THEN Raise(c1, "TransportError")
            ELSE IF resp.status = 401 /\ ~_retried
            THEN LET c2 == _refresh_token(c1)
                 IN IF c2.exc # "" THEN c2 ELSE fetch_units(c2, TRUE)
            ELSE IF ~IsSuccess(resp.status) THEN Raise(c1, "HTTPStatusError")
            ELSE IF ~resp.parsable THEN Raise(c1, "JSONDecodeError")
            ELSE [c1 EXCEPT !.ret = resp.body]

RECURSIVE fetch_transactions(_, _)
RECURSIVE TransactionsLoop(_, _, _, _, _)
\* mutant: the items of a page replace the items collected so far
TransactionsLoopLastPage(c, headers, all_items, next_id, _retried) ==
    LET resp == RespApi(c)
        c1 == SentApi(c, "get", headers, next_id)
    IN IF resp.status = 0 THEN Raise(c1, "TransportError")
       ELSE IF resp.status = 401 /\ ~_retried
       THEN LET c2 == _refresh_token(c1)
            IN IF c2.exc # "" THEN c2 ELSE fetch_transactions(c2, TRUE)
       ELSE IF ~IsSuccess(resp.status) THEN Raise(c1, "HTTPStatusError")
       ELSE IF ~resp.parsable THEN Raise(c1, "JSONDecodeError")
       ELSE LET items == resp.body
            IN IF resp.next_id = ""
               THEN [c1 EXCEPT !.ret = items]
               ELSE TransactionsLoop(c1, headers, items, resp.next_id, _retried)

\* mutant: the loop stops after the second page
TransactionsLoopCeiling(c, headers, all_items, next_id, _retried) ==
    LET resp == RespApi(c)
        c1 == SentApi(c, "get", headers, next_id)
    IN IF resp.status = 0 THEN Raise(c1, "TransportError")
       ELSE IF resp.status = 401 /\ ~_retried
       THEN LET c2 == _refresh_token(c1)
            IN IF c2.exc # "" THEN c2 ELSE fetch_transactions(c2, TRUE)
       ELSE IF ~IsSuccess(resp.status) THEN Raise(c1, "HTTPStatusError")
       ELSE IF ~resp.parsable THEN Raise(c1, "JSONDecodeError")
       ELSE LET items == all_items \o resp.body
            IN IF resp.next_id = "" \/ next_id # ""
               THEN [c1 EXCEPT !.ret = items]
               ELSE TransactionsLoop(c1, headers, items, resp.next_id, _retried)

\* mutant: after the re-sign-in the loop goes on from the first page with the
\* items gathered so far
TransactionsLoopKeep(c, headers, all_items, next_id, _retried) ==
    LET resp == RespApi(c)
        c1 == SentApi(c, "get", headers, next_id)
    IN IF resp.status = 0 THEN Raise(c1, "TransportError")
       ELSE IF resp.status = 401 /\ ~_retried
       THEN LET c2 == _refresh_token(c1)
            IN IF c2.exc # "" THEN c2
               ELSE TransactionsLoop(c2, _headers(c2), all_items, "", TRUE)
       ELSE IF ~IsSuccess(resp.status) THEN Raise(c1, "HTTPStatusError")
       ELSE IF ~resp.parsable THEN Raise(c1, "JSONDecodeError")
       ELSE LET items == all_items \o resp.body
            IN IF resp.next_id = ""
               THEN [c1 EXCEPT !.ret = items]
               ELSE TransactionsLoop(c1, headers, items, resp.next_id, _retried)

\* one iteration of the "while True" loop and the iterations after it
TransactionsLoop(c, headers, all_items, next_id, _retried) ==
    LET resp == RespApi(c)
        c1 == SentApi(c, "get", headers, next_id)
    IN IF resp.status = 0 THEN Raise(c1, "TransportError")
       ELSE IF resp.status = 401 /\ ~_retried
       THEN LET c2 == _refresh_token(c1)
            IN IF c2.exc # "" THEN c2 ELSE fetch_transactions(c2, TRUE)
       ELSE IF ~IsSuccess(resp.status) THEN Raise(c1, "HTTPStatusError")
       ELSE IF ~resp.parsable THEN Raise(c1, "JSONDecodeError")
       ELSE LET items == all_items \o resp.body
            IN IF resp.next_id = ""
               THEN [c1 EXCEPT !.ret = items]
               ELSE TransactionsLoop(c1, headers, items, resp.next_id, _retried)

fetch_transactions(c, _retried) ==
    IF ~c.http THEN Raise(c, "AssertionError")
    ELSE TransactionsLoop(c, _headers(c), <<>>, "", _retried)

(***************************************************************************)
(* Inputs of the poll cycle                                                *)
(***************************************************************************)
SeqsUpTo(S, n) == UNION {[1..k -> S] : k \in 0..n}

SampleWashIds == <<1, 2>>

UnitIds == {SampleWashIds[i] : i \in DOMAIN SampleWashIds}

Configs ==
    [wash_ids : {<<>>, SampleWashIds},
     tms_email : {"", "bot@example.org"},
     tms_password : {"", "secret"}]

Module(name, status, text, children) ==
    [full_name |-> name, name |-> NONE, id |-> NONE,
     status |-> status, text |-> text, modules |-> children]

Status(type, online_type, mods) ==
    [type |-> type, online_type |-> online_type, modules |-> mods]

\* what a unit object can carry besides its id: clean, top-level error,
\* an offline module, only a suppressed warning
Unit(id, unit_id, status, mods) ==
    [id |-> id, unit_id |-> unit_id, status |-> status, modules |-> mods]

CleanStatus == Status("ok", "online", <<>>)

\* The unit objects the server answers with.  Unit 1 comes with an "id" key:
\* with nothing but a suppressed warning (under status.modules), with a
\* top-level error, with an offline module.  Unit 2 comes with a "unit_id" key
\* only, with an offline module.  One object carries no id at all and a
\* top-level error.
PollSnapshots ==
    { Unit(1, 0, Status("ok", "online",
                        <<Module("modem", " Warning ", "Connection Failed ", <<>>)>>), <<>>),
      Unit(1, 0, Status("ERROR", "online", <<>>), <<>>),
      Unit(1, 0, CleanStatus, <<Module("pump", "offline", NONE, <<>>)>>),
      Unit(0, 2, CleanStatus, <<Module("pump", "offline", NONE, <<>>)>>),
      Unit(0, 0, Status("ERROR", "online", <<>>), <<>>) }

\* a response is a JSON array of up to MaxResp distinct unit objects (two of
\* them may still describe the same unit)
Responses ==
    {d \in SeqsUpTo(PollSnapshots, MaxResp) : \A i, j \in DOMAIN d : d[i] = d[j] => i = j}

\* The evaluator over the sampled unit objects, computed once per object.
Verdicts ==
    [w \in PollSnapshots |->
        [is_bad |-> is_bad_wash(w), fingerprint |-> _fingerprint(w),
         worst |-> _worst_status_for_wash(w)]]

IsBad(w) == Verdicts[w].is_bad
Fingerprint(w) == Verdicts[w].fingerprint
Worst(w) == Verdicts[w].worst

(***************************************************************************)
(* Python dict with insertion order: a sequence of <<key, value>> pairs    *)
(* with distinct keys.                                                     *)
(***************************************************************************)
DictKeys(d) == {d[i][1] : i \in DOMAIN d}

DictGet(d, k) == LET i == CHOOSE j \in DOMAIN d : d[j][1] = k IN d[i][2]

DictSet(d, k, v) ==
    IF k \in DictKeys(d)
    THEN [i \in DOMAIN d |-> IF d[i][1] = k THEN <<k, v>> ELSE d[i]]
    ELSE Append(d, <<k, v>>)

(***************************************************************************)
(* format_washes: app/formatters.py.  The text is kept as its header and   *)
(* one line per listed unit: the id shown ("id or unit_id or '-'", 0 for   *)
(* '-') and the worst status shown.                                        *)
(***************************************************************************)
Line(unit, worst) == [unit |-> unit, worst |-> worst]

RECURSIVE FormatLines(_, _)
FormatLines(washes, only_bad) ==
    IF washes = <<>> THEN <<>>
    ELSE LET w == Head(washes)
             rest == FormatLines(Tail(washes), only_bad)
         IN IF only_bad /\ ~IsBad(w) THEN rest
            ELSE LET unit_id == IF w.id # 0 THEN w.id ELSE w.unit_id
                 IN <<Line(unit_id, Worst(w))>> \o rest

\* mutant: only_bad is ignored, every unit is listed
format_washes_all(washes, only_bad) ==
    [header |-> "all", lines |-> FormatLines(washes, FALSE)]

format_washes(washes, only_bad) ==
    LET lines == FormatLines(washes, only_bad)
    IN IF only_bad /\ lines = <<>>
       THEN [header |-> "no_bad_washes", lines |-> <<>>]
       ELSE [header |-> IF only_bad THEN "only_bad" ELSE "all", lines |-> lines]

(***************************************************************************)
(* _poll_and_send: app/bot.py                                              *)
(***************************************************************************)
Message(kind, lines) == [kind |-> kind, lines |-> lines]

\* mutant: every unit with an id gets an entry, bad or not
RECURSIVE BuildCurrentBadAll(_, _)
BuildCurrentBadAll(data, current_bad) ==
    IF data = <<>> THEN current_bad
    ELSE LET w == Head(data)
             unit_id == IF w.id # 0 THEN w.id ELSE w.unit_id
         IN IF unit_id = 0
            THEN BuildCurrentBadAll(Tail(data), current_bad)
            ELSE BuildCurrentBadAll(Tail(data), DictSet(current_bad, unit_id, Fingerprint(w)))

\* lines 112-120: the loop that builds current_bad
RECURSIVE BuildCurrentBad(_, _)
BuildCurrentBad(data, current_bad) ==
    IF data = <<>> THEN current_bad
    ELSE LET w == Head(data)
             unit_id == IF w.id # 0 THEN w.id ELSE w.unit_id
         IN IF unit_id = 0
            THEN BuildCurrentBad(Tail(data), current_bad)
            ELSE IF IsBad(w)
            THEN BuildCurrentBad(Tail(data), DictSet(current_bad, unit_id, Fingerprint(w)))
            ELSE BuildCurrentBad(Tail(data), current_bad)

\* mutant: every unit of the previous table is reported, still bad or not
RecoveredIdsAll(prev, current_bad) == [i \in DOMAIN prev |-> prev[i][1]]

\* mutant: only the first recovered unit is reported
RecoveredIdsFirst(prev, current_bad) ==
    LET keys == [i \in DOMAIN prev |-> prev[i][1]]
        gone == SelectSeq(keys, LAMBDA i : i \notin DictKeys(current_bad))
    IN IF gone = <<>> THEN <<>> ELSE <<Head(gone)>>

\* line 136
RecoveredIds(prev, current_bad) ==
    LET keys == [i \in DOMAIN prev |-> prev[i][1]]
    IN SelectSeq(keys, LAMBDA i : i \notin DictKeys(current_bad))

\* mutant: the comparison of the fingerprints is left out
RECURSIVE ChangedAlways(_, _)
ChangedAlways(items, prev) ==
    IF items = <<>> THEN <<>>
    ELSE LET uid == Head(items)[1]
             rest == ChangedAlways(Tail(items), prev)
         IN IF uid \in DictKeys(prev) THEN <<Line(uid, "")>> \o rest ELSE rest

\* mutant: "old_fp != fp" without "old_fp and": a unit with no old entry counts
RECURSIVE ChangedNew(_, _)
ChangedNew(items, prev) ==
    IF items = <<>> THEN <<>>
    ELSE LET uid == Head(items)[1]
             fp == Head(items)[2]
             old_fp == IF uid \in DictKeys(prev) THEN DictGet(prev, uid) ELSE NONE
             rest == ChangedNew(Tail(items), prev)
         IN IF old_fp # fp THEN <<Line(uid, "")>> \o rest ELSE rest

\* lines 149-154
RECURSIVE Changed(_, _)
Changed(items, prev) ==
    IF items = <<>> THEN <<>>
    ELSE LET uid == Head(items)[1]
             fp == Head(items)[2]
             old_fp == IF uid \in DictKeys(prev) THEN DictGet(prev, uid) ELSE NONE
             rest == Changed(Tail(items), prev)
         IN IF Truthy(old_fp) /\ old_fp # fp
            THEN <<Line(uid, "")>> \o rest
            ELSE rest

\* lines 123-133: the summary of the current problems
ProblemsMessage(data, current_bad) ==
    IF current_bad # <<>>
    THEN <<Message("problems", format_washes(data, TRUE).lines)>>
    ELSE <<>>

\* lines 136-146: one batched message for the units that recovered
RecoveredMessage(prev, current_bad) ==
    LET recovered_ids == RecoveredIds(prev, current_bad)
    IN IF recovered_ids # <<>>
       THEN <<Message("recovered",
                      [i \in DOMAIN recovered_ids |-> Line(recovered_ids[i], "")])>>
       ELSE <<>>

\* lines 149-161: one batched message for the units whose fingerprint changed
ChangedMessage(prev, current_bad) ==
    LET changed == Changed(current_bad, prev)
    IN IF changed # <<>> THEN <<Message("changed", changed)>> ELSE <<>>

\* lines 122-161: the notifications of a cycle whose fetch returned data
Notifications(data, prev, current_bad) ==
    ProblemsMessage(data, current_bad)
    \o RecoveredMessage(prev, current_bad)
    \o ChangedMessage(prev, current_bad)

\* _notify_token_refresh: one message per invocation of the callback
TokenMessages(events) ==
    LET cb == SelectSeq(events, LAMBDA e : e.ev = "on_token_refresh")
    IN [i \in DOMAIN cb |-> Message("token", <<>>)]

\* lines 100-106: async with TMSClient(...) as tms: fetch_units(...).
\* __aexit__ runs only when __aenter__ returned.
WithClientFetchUnits(script) ==
    LET c0 == Call(NewClient(TRUE), script)
        c1 == __aenter__(c0)
    IN IF c1.exc # "" THEN c1 ELSE __aexit__(fetch_units(c1, FALSE))

(***************************************************************************)
(* Server scripts of the poll cycle                                        *)
(***************************************************************************)
AuthResps ==
    { [status |-> 0, cookie |-> ""], [status |-> 500, cookie |-> ""],
      [status |-> 200, cookie |-> ""], [status |-> 200, cookie |-> "tokA"] }

ApiResp(status, parsable) ==
    [status |-> status, parsable |-> parsable, body |-> <<>>, next_id |-> ""]

ApiResps ==
    { ApiResp(0, FALSE), ApiResp(401, FALSE), ApiResp(500, FALSE),
      ApiResp(200, FALSE), ApiResp(200, TRUE) }

\* the answers of the server in the client state machine
ClientAuthResps ==
    AuthResps \cup {[status |-> 200, cookie |-> "tokB"], [status |-> 401, cookie |-> ""]}

UnitsBody == <<Unit(1, 0, CleanStatus, <<>>)>>

UnitsApiResps ==
    { ApiResp(0, FALSE), ApiResp(401, FALSE), ApiResp(500, FALSE), ApiResp(200, FALSE),
      [ApiResp(200, TRUE) EXCEPT !.body = UnitsBody] }

Page(items, next_id) ==
    [status |-> 200, parsable |-> TRUE, body |-> items, next_id |-> next_id]

PagesApiResps ==
    { ApiResp(0, FALSE), ApiResp(401, FALSE), ApiResp(500, FALSE), ApiResp(200, FALSE),
      Page(<<"t1">>, ""), Page(<<"t2">>, ""), Page(<<"t1">>, "n1"), Page(<<"t2">>, "n2") }

\* a client inside its with-block, to find the scripts a call reads to the end
OpenClient(callback) ==
    [cookie_value |-> "tokA", http |-> TRUE, on_token_refresh |-> callback]

\* the calls that run against a script: the poll cycle's with-block, and the
\* methods of the client
Run(op, s) ==
    CASE op = "poll" -> WithClientFetchUnits(s)
      [] op = "__aenter__" -> __aenter__(Call(NewClient(TRUE), s))
      [] op = "fetch_units" -> fetch_units(Call(OpenClient(TRUE), s), FALSE)
      [] op = "fetch_transactions" -> fetch_transactions(Call(OpenClient(TRUE), s), FALSE)

\* The scripts of at most n responses that a call reads to the end, no more
\* and no less: a script grows by one response of the stream the call starved
\* on, until the call ends without starving.
RECURSIVE Grow(_, _, _, _, _)
Grow(op, auths, apis, S, n) ==
    IF S = {} THEN {}
    ELSE LET done == {s \in S : Run(op, s).starved = ""}
             more == UNION { IF Run(op, s).starved = "auth"
                             THEN {[s EXCEPT !.auth = Append(@, r)] : r \in auths}
                             ELSE {[s EXCEPT !.api = Append(@, r)] : r \in apis} :
                             s \in S \ done }
         IN done \cup (IF n = 0 THEN {} ELSE Grow(op, auths, apis, more, n - 1))

ScriptsFor(op, auths, apis) ==
    Grow(op, auths, apis, {[auth |-> <<>>, api |-> <<>>]}, MaxRequests)

PollScripts == ScriptsFor("poll", AuthResps, ApiResps)
EnterScripts == ScriptsFor("__aenter__", ClientAuthResps, {})
UnitsScripts == ScriptsFor("fetch_units", ClientAuthResps, UnitsApiResps)
PagesScripts == ScriptsFor("fetch_transactions", ClientAuthResps, PagesApiResps)

\* the script with the unit array as the body of its parsable responses
FillBody(s, data) ==
    [s EXCEPT !.api = [i \in DOMAIN s.api |->
                         IF s.api[i].parsable THEN [s.api[i] EXCEPT !.body = data]
                         ELSE s.api[i]]]

DataFor(s) == IF WithClientFetchUnits(s).exc = "" THEN Responses ELSE {<<>>}

(***************************************************************************)
(* Ghost: what a response says about each unit, stated without the loop.   *)
(***************************************************************************)
UnitIdOf(w) == IF w.id # 0 THEN w.id ELSE w.unit_id

BadAt(data, u) == {i \in DOMAIN data : UnitIdOf(data[i]) = u /\ IsBad(data[i])}

Last(S) == CHOOSE i \in S : \A j \in S : j <= i

TruthOf(data) ==
    [u \in {v \in UnitIds : BadAt(data, v) # {}} |-> Fingerprint(data[Last(BadAt(data, u))])]

Count(lines, u) == Cardinality({i \in DOMAIN lines : lines[i].unit = u})

\* how often the messages of one kind list unit u
Listed(msgs, kind, u) ==
    LET of == SelectSeq(msgs, LAMBDA m : m.kind = kind)
        RECURSIVE Sum(_)
        Sum(ms) == IF ms = <<>> THEN 0 ELSE Count(Head(ms).lines, u) + Sum(Tail(ms))
    IN Sum(of)

(***************************************************************************)
(* State machine of the poll job                                           *)
(***************************************************************************)
\* The invocations of _poll_and_send that the job queue has started.  An
\* invocation keeps its locals (data, current_bad, the message it is sending)
\* while it is suspended at an await; fetched and stored number the fetches
\* and the writes of the table in the order they happened (0: not yet).
Jobs == {"a", "b"}

Job(pc, stage, pending, data, current_bad, exc, fetched, stored) ==
    [pc |-> pc, stage |-> stage, pending |-> pending, data |-> data,
     current_bad |-> current_bad, exc |-> exc, fetched |-> fetched, stored |-> stored]

NoJobs == [j \in Jobs |-> Job("idle", "", <<>>, <<>>, <<>>, "", 0, 0)]

\* What the last run did: its result ("config", "error", "ok"), the exception
\* caught, the unit array fetched, the table it started from and the number of
\* failed cycles between the previous good poll and this run.
Outcome(result, exc, data, prev, failed_before) ==
    [result |-> result, exc |-> exc, data |-> data, prev |-> prev,
     failed_before |-> failed_before]

Init ==
    /\ cfg \in Configs
    /\ prev_bad = <<>>
    /\ last_poll_ok_at = 0
    /\ now = 0
    /\ tms = NewClient(TRUE)
    /\ log = <<>>
    /\ sent = <<>>
    /\ outcome = Outcome("none", "", <<>>, <<>>, 0)
    /\ truth = <<>>
    /\ failedSinceOk = 0
    /\ owedRecovered = [u \in UnitIds |-> 0]
    /\ owedChanged = [u \in UnitIds |-> 0]
    /\ jobs = NoJobs

\* mutant: the password is not checked
MissingSettingNoPassword(c) ==
    IF c.wash_ids = <<>> THEN "config_wash_ids"
    ELSE IF ~Truthy(c.tms_email) THEN "config_credentials"
    ELSE ""

\* lines 89-94: the check that stops the cycle, "" when the settings are there
MissingSetting(c) ==
    IF c.wash_ids = <<>> THEN "config_wash_ids"
    ELSE IF ~Truthy(c.tms_email) \/ ~Truthy(c.tms_password) THEN "config_credentials"
    ELSE ""

\* lines 90-91, 93-94: the message is sent and the handler returns
ConfigError(kind) ==
    /\ sent' = <<Message(kind, <<>>)>>
    /\ log' = <<>>
    /\ outcome' = Outcome("config", "", <<>>, prev_bad, failedSinceOk)
    /\ UNCHANGED <<prev_bad, last_poll_ok_at, tms, truth, failedSinceOk,
                   owedRecovered, owedChanged>>

\* lines 99-170 for one script of server responses
Poll(script, data) ==
    LET c == WithClientFetchUnits(script)
    IN /\ tms' = ClientOf(c)
       /\ log' = c.log
       /\ IF c.exc # ""
          THEN \* lines 168-170
               /\ sent' = TokenMessages(c.log) \o <<Message("error", <<>>)>>
               /\ outcome' = Outcome("error", c.exc, <<>>, prev_bad, failedSinceOk)
               /\ failedSinceOk' = failedSinceOk + 1
               /\ UNCHANGED <<prev_bad, last_poll_ok_at, truth>>
          ELSE LET current_bad == BuildCurrentBad(c.ret, <<>>)
               IN /\ sent' = TokenMessages(c.log) \o Notifications(c.ret, prev_bad, current_bad)
                  /\ prev_bad' = current_bad
                  /\ last_poll_ok_at' = now'
                  /\ outcome' = Outcome("ok", "", c.ret, prev_bad, failedSinceOk)
                  /\ failedSinceOk' = 0
                  /\ truth' = TruthOf(data)
       /\ owedRecovered' = [u \in UnitIds |->
             owedRecovered[u]
             + (IF u \in DOMAIN truth /\ u \notin DOMAIN truth' THEN 1 ELSE 0)
             - Listed(sent', "recovered", u)]
       /\ owedChanged' = [u \in UnitIds |->
             owedChanged[u]
             + (IF u \in DOMAIN truth /\ u \in DOMAIN truth' /\ truth[u] # truth'[u]
                THEN 1 ELSE 0)
             - Listed(sent', "changed", u)]

_poll_and_send ==
    /\ now < MaxCycles
    /\ now' = now + 1
    /\ cfg' = cfg
    /\ jobs' = jobs
    /\ IF MissingSetting(cfg) # "" THEN ConfigError(MissingSetting(cfg))
       ELSE \E s \in PollScripts : \E data \in DataFor(s) : Poll(FillBody(s, data), data)

Next == _poll_and_send

Spec == Init /\ [][Next]_vars

(***************************************************************************)
(* Poll cycle: the claims                                                  *)
(***************************************************************************)
MsgsOf(kind) == SelectSeq(sent, LAMBDA m : m.kind = kind)

UnitsOf(m) == {m.lines[i].unit : i \in DOMAIN m.lines}

\* the units the messages of one kind list, and how many such messages there are
ListedUnits(kind) == UNION {UnitsOf(MsgsOf(kind)[i]) : i \in DOMAIN MsgsOf(kind)}
NumMsgs(kind) == Len(MsgsOf(kind))

PrevKeys == DictKeys(outcome.prev)
CurKeys == DictKeys(prev_bad)
PollOk == outcome.result = "ok"
PollFailed == outcome.result = "error"

\* C1: over any mix of good and failed poll cycles, each transition of a unit
\* from bad to not bad has produced exactly one 'recovered' listing of that
\* unit, each change of a still-bad unit's fingerprint between two consecutive
\* good polls exactly one 'state updated' listing, and there is no listing
\* without such a transition: listings and transitions balance for every unit
\* after every cycle, and nothing but a configured unit is ever listed.
C1_ExactlyOnce ==
    /\ \A u \in UnitIds : owedRecovered[u] = 0 /\ owedChanged[u] = 0
    /\ ListedUnits("recovered") \cup ListedUnits("changed") \subseteq UnitIds
    /\ PollFailed => NumMsgs("recovered") = 0 /\ NumMsgs("changed") = 0

\* a good poll after a failed one, which lists unit 2 as recovered and unit 1
\* as changed
C1_Witness ==
    /\ PollOk
    /\ outcome.failed_before >= 1
    /\ Listed(sent, "recovered", 2) = 1
    /\ Listed(sent, "changed", 1) = 1

\* C2: in a good poll a 'recovered' message is sent iff keys(previous_bad)
\* minus keys(current_bad) is not empty; it is one message, it lists exactly
\* the units of that set, each once, and none of them is in the stored table.
C2_Recovered ==
    PollOk =>
        LET gone == PrevKeys \ CurKeys
        IN /\ NumMsgs("recovered") = (IF gone # {} THEN 1 ELSE 0)
           /\ ListedUnits("recovered") = gone
           /\ \A u \in gone : Listed(sent, "recovered", u) = 1
           /\ gone \cap DictKeys(prev_bad) = {}

\* two units recovered in the same poll, announced in one message
C2_Witness ==
    /\ PollOk
    /\ PrevKeys \ CurKeys = {1, 2}
    /\ NumMsgs("recovered") = 1

\* C3: in a good poll a unit of both tables is listed in the one 'state
\* updated' message iff its fingerprints differ, and is never listed as
\* recovered; a unit that is bad for the first time is listed in neither
\* message; without a differing fingerprint no such message is sent.
C3_Changed ==
    PollOk =>
        LET both == PrevKeys \cap CurKeys
            differ == {u \in both : DictGet(outcome.prev, u) # DictGet(prev_bad, u)}
        IN /\ \A u \in both : /\ Listed(sent, "changed", u) = (IF u \in differ THEN 1 ELSE 0)
                              /\ Listed(sent, "recovered", u) = 0
           /\ \A u \in CurKeys \ PrevKeys : /\ Listed(sent, "changed", u) = 0
                                            /\ Listed(sent, "recovered", u) = 0
           /\ NumMsgs("changed") = (IF differ # {} THEN 1 ELSE 0)

\* unit 1 stays bad with another fingerprint while unit 2 is bad for the first time
C3_Witness ==
    /\ PollOk
    /\ 1 \in PrevKeys /\ 1 \in CurKeys
    /\ DictGet(outcome.prev, 1) # DictGet(prev_bad, 1)
    /\ 2 \in CurKeys \ PrevKeys
    /\ NumMsgs("changed") = 1

\* the stored table read as a map
TableMap(d) == [u \in DictKeys(d) |-> DictGet(d, u)]

DistinctKeys(d) == \A i, j \in DOMAIN d : d[i][1] = d[j][1] => i = j

\* C4 as stated: after a good poll the table has an entry for every returned
\* unit object for which is_bad holds, mapped to that object's fingerprint,
\* no entry for a returned unit object that is not bad, and nothing else.
C4_AsStated ==
    PollOk =>
        LET data == outcome.data
        IN /\ \A i \in DOMAIN data :
                IF IsBad(data[i])
                THEN /\ UnitIdOf(data[i]) \in CurKeys
                     /\ DictGet(prev_bad, UnitIdOf(data[i])) = Fingerprint(data[i])
                ELSE UnitIdOf(data[i]) \notin CurKeys
           /\ \A u \in CurKeys : \E i \in DOMAIN data : UnitIdOf(data[i]) = u

\* C4 amended: after a good poll the table is exactly the map built in that
\* cycle: its keys are the non-empty ids of the returned unit objects for
\* which is_bad holds, each mapped to the fingerprint of the last such object
\* of that id; a bad object without an id has no entry, and nothing is carried
\* over from the previous table.
C4_TableIsCurrent ==
    PollOk => /\ TableMap(prev_bad) = TruthOf(outcome.data)
              /\ DistinctKeys(prev_bad)
              /\ 0 \notin CurKeys

\* a poll that started from a table with unit 2 and returned a bad unit 1 and
\* a bad object without an id: the table holds unit 1 only
C4_Witness ==
    /\ PollOk
    /\ 2 \in PrevKeys
    /\ CurKeys = {1}
    /\ \E i \in DOMAIN outcome.data : UnitIdOf(outcome.data[i]) = 0 /\ IsBad(outcome.data[i])

Requests(ev) == SelectSeq(log, LAMBDA e : e.ev = ev)

\* nothing of the cycle shows an evaluated unit
NothingEvaluated ==
    /\ outcome.data = <<>>
    /\ NumMsgs("problems") = 0 /\ NumMsgs("recovered") = 0 /\ NumMsgs("changed") = 0

\* C5 as stated: when the fetch fails, no unit is evaluated, the table is left
\* as it was, exactly one error notification is sent and the cycle makes no
\* second fetch attempt.
C5_AsStated ==
    PollFailed =>
        /\ NothingEvaluated
        /\ prev_bad = outcome.prev
        /\ NumMsgs("error") = 1
        /\ Len(Requests("post")) <= 1

\* C5 amended: when the fetch fails, no unit is evaluated, the table is left
\* as it was, exactly one error notification is sent, and it is the last
\* message; the cycle sends at most two POSTs, and a second one only as the
\* single retry that follows a 401 on the first and one re-sign-in; no
\* request follows the failure.
C5_FetchFailure ==
    PollFailed =>
        /\ NothingEvaluated
        /\ prev_bad = outcome.prev
        /\ NumMsgs("error") = 1
        /\ sent[Len(sent)].kind = "error"
        /\ Len(Requests("post")) <= 2
        /\ Len(Requests("post")) = 2 =>
              /\ Requests("post")[1].status = 401
              /\ Len(Requests("sign_in")) = 2
        /\ Len(Requests("post")) < 2 => Len(Requests("sign_in")) <= 1 + Len(Requests("post"))

\* a failed cycle that sent two POSTs and left a non-empty table alone
C5_Witness ==
    /\ PollFailed
    /\ Len(Requests("post")) = 2
    /\ prev_bad # <<>>
    /\ prev_bad = outcome.prev

ConfigIncomplete ==
    cfg.wash_ids = <<>> \/ cfg.tms_email = "" \/ cfg.tms_password = ""

\* C6: with an empty unit-id list or an unset email or password, a poll cycle
\* sends exactly one configuration-error notification and nothing else, makes
\* no sign-in and no fetch, and leaves the table and the time of the last good
\* poll unchanged.
C6_ConfigError ==
    (ConfigIncomplete /\ now > 0) =>
        /\ Len(sent) = 1
        /\ sent[1].kind \in {"config_wash_ids", "config_credentials"}
        /\ log = <<>>
        /\ tms = NewClient(TRUE)
        /\ prev_bad = outcome.prev
        /\ last_poll_ok_at = 0

\* a cycle run with the id list, the email and the password all unset
C6_Witness ==
    /\ cfg.wash_ids = <<>> /\ cfg.tms_email = "" /\ cfg.tms_password = ""
    /\ now > 0
    /\ Len(sent) = 1

\* the ids of the returned unit objects for which is_bad holds, in order
BadShown(data) ==
    LET bad == SelectSeq(data, LAMBDA w : IsBad(w))
    IN [i \in DOMAIN bad |-> IF bad[i].id # 0 THEN bad[i].id ELSE bad[i].unit_id]

\* C7: in a good poll the 'problems' summary is sent iff current_bad is not
\* empty, then exactly once, whether or not a fingerprint changed since the
\* previous poll, and it lists the returned units for which is_bad holds and
\* no other.
C7_Problems ==
    PollOk =>
        /\ NumMsgs("problems") = (IF prev_bad # <<>> THEN 1 ELSE 0)
        /\ \A i \in DOMAIN MsgsOf("problems") :
              LET lines == MsgsOf("problems")[i].lines
              IN [j \in DOMAIN lines |-> lines[j].unit] = BadShown(outcome.data)

\* a later good poll in which the table did not change and the summary is sent again
C7_Witness ==
    /\ PollOk
    /\ now >= 2
    /\ prev_bad # <<>>
    /\ prev_bad = outcome.prev
    /\ NumMsgs("problems") = 1
    /\ NumMsgs("changed") = 0
    /\ \E i \in DOMAIN outcome.data : ~IsBad(outcome.data[i])

(***************************************************************************)
(* State machine of one TMSClient used inside "async with": the with-block *)
(* is entered, fetch_units and fetch_transactions are called, the block is *)
(* left.  Every call runs against a script of server responses.            *)
(***************************************************************************)
\* what the last client call did: the method, the exception raised, the value
\* returned, the script it ran against and the token stored before it
ClientOutcome(op, c, script, before) ==
    [result |-> op, exc |-> c.exc, data |-> c.ret, script |-> script, before |-> before]

InitClient ==
    /\ cfg \in {c \in Configs : MissingSetting(c) = ""}
    /\ prev_bad = <<>>
    /\ last_poll_ok_at = 0
    /\ now = 0
    /\ tms \in {NewClient(TRUE), NewClient(FALSE)}
    /\ log = <<>>
    /\ sent = <<>>
    /\ outcome = [result |-> "none", exc |-> "", data |-> <<>>,
                  script |-> [auth |-> <<>>, api |-> <<>>], before |-> ""]
    /\ truth = <<>>
    /\ failedSinceOk = 0
    /\ owedRecovered = [u \in UnitIds |-> 0]
    /\ owedChanged = [u \in UnitIds |-> 0]
    /\ jobs = NoJobs

ClientFrame ==
    UNCHANGED <<cfg, prev_bad, last_poll_ok_at, now, sent, truth, failedSinceOk,
                owedRecovered, owedChanged, jobs>>

ClientCall(op, c, script) ==
    /\ tms' = ClientOf(c)
    /\ log' = c.log
    /\ outcome' = ClientOutcome(op, c, script, tms.cookie_value)
    /\ ClientFrame

\* "async with TMSClient(...) as tms": __aenter__ of a new client
ClientEnter ==
    /\ ~tms.http
    /\ \E s \in EnterScripts :
          ClientCall("__aenter__", __aenter__(Call(NewClient(tms.on_token_refresh), s)), s)

\* a call of fetch_units inside the with-block
ClientFetchUnits ==
    /\ tms.http /\ tms.cookie_value # ""
    /\ \E s \in UnitsScripts : ClientCall("fetch_units", fetch_units(Call(tms, s), FALSE), s)

\* a call of fetch_transactions inside the with-block
ClientFetchTransactions ==
    /\ tms.http /\ tms.cookie_value # ""
    /\ \E s \in PagesScripts :
          ClientCall("fetch_transactions", fetch_transactions(Call(tms, s), FALSE), s)

\* a call of _ensure_token on the open client: with a token held it needs no
\* response, without one (after a failed __aenter__) it signs in
ClientEnsureToken ==
    /\ tms.http
    /\ \E s \in (IF tms.cookie_value = "" THEN EnterScripts
                  ELSE {[auth |-> <<>>, api |-> <<>>]}) :
          ClientCall("_ensure_token", _ensure_token(Call(tms, s)), s)

\* the with-block is left: __aexit__
ClientExit ==
    /\ tms.http /\ tms.cookie_value # ""
    /\ ClientCall("__aexit__", __aexit__(Call(tms, [auth |-> <<>>, api |-> <<>>])),
                  [auth |-> <<>>, api |-> <<>>])

NextClient ==
    \/ ClientEnter
    \/ ClientEnsureToken
    \/ ClientFetchUnits
    \/ ClientFetchTransactions
    \/ ClientExit

SpecClient == InitClient /\ [][NextClient]_vars

(***************************************************************************)
(* Claims about one client call                                            *)
(***************************************************************************)
\* the server answered the first POST of the last fetch_units call with 401,
\* the sign-in after it with 200 and a cookie, the POST after that with 200
RetryScenario ==
    /\ outcome.result = "fetch_units"
    /\ Len(outcome.script.api) >= 2
    /\ Len(outcome.script.auth) >= 1
    /\ outcome.script.api[1].status = 401
    /\ outcome.script.auth[1].status = 200 /\ outcome.script.auth[1].cookie # ""
    /\ outcome.script.api[2].status = 200

\* the call returned the data after one sign-in and two POSTs, the second POST
\* with the token of that sign-in
RetriedWithNewToken ==
    /\ outcome.exc = ""
    /\ outcome.data = outcome.script.api[2].body
    /\ Len(Requests("sign_in")) = 1
    /\ Len(Requests("post")) = 2
    /\ Requests("post")[1].tok = outcome.before
    /\ Requests("post")[2].tok = outcome.script.auth[1].cookie
    /\ tms.cookie_value = outcome.script.auth[1].cookie

\* C8 as stated: fetch_units whose first POST gets 401, whose re-sign-in
\* succeeds and whose retried POST gets 200 returns the data, after exactly one
\* sign-in and two POSTs, the retried POST carrying the new token.
C8_AsStated == RetryScenario => RetriedWithNewToken

\* C8: fetch_units whose first POST gets 401, whose re-sign-in succeeds and
\* whose retried POST gets 200 with a body that parses as JSON returns that
\* body, after exactly one sign-in and exactly two POSTs; the first POST carries
\* the token stored before the call, the retried POST the token of the new
\* sign-in, which is the token the client keeps.
C8_RetrySucceeds ==
    (RetryScenario /\ outcome.script.api[2].parsable) => RetriedWithNewToken

\* a retry that succeeded with a token other than the expired one
C8_Witness ==
    /\ RetryScenario
    /\ outcome.script.api[2].parsable
    /\ outcome.exc = ""
    /\ outcome.data # <<>>
    /\ outcome.script.auth[1].cookie # outcome.before
    /\ Len(Requests("post")) = 2

\* C9: one fetch_units call signs in at most once and only directly after a
\* 401 on its first POST, sends at most two POSTs and calls the refresh
\* callback at most once, after that sign-in; a 401 on the retried POST and any
\* other non-2xx status on either POST is the last thing the call does, and
\* the call ends with HTTPStatusError.
C9_RetryOnce ==
    outcome.result = "fetch_units" =>
        /\ Len(Requests("sign_in")) <= 1
        /\ Len(Requests("post")) <= 2
        /\ Len(Requests("on_token_refresh")) <= 1
        /\ \A i \in DOMAIN log :
              /\ log[i].ev = "sign_in" =>
                    i = 2 /\ log[1].ev = "post" /\ log[1].status = 401
              /\ log[i].ev = "on_token_refresh" =>
                    i = 3 /\ log[2].ev = "sign_in" /\ log[2].status = 200
              /\ (log[i].ev = "post" /\ log[i].status = 401 /\ i > 1) =>
                    i = Len(log) /\ outcome.exc = "HTTPStatusError"
              /\ (log[i].ev = "post" /\ log[i].status \notin {0, 401}
                      /\ ~IsSuccess(log[i].status)) =>
                    i = Len(log) /\ outcome.exc = "HTTPStatusError"

\* a call whose retried POST got 401 as well
C9_Witness ==
    /\ outcome.result = "fetch_units"
    /\ Len(Requests("post")) = 2
    /\ Requests("post")[2].status = 401
    /\ Len(Requests("sign_in")) = 1
    /\ outcome.exc = "HTTPStatusError"

\* a GET that is the first attempt of its page request: it does not directly
\* follow a re-authentication
FirstAttempt(i) ==
    ~(i > 1 /\ log[i - 1].ev \in {"sign_in", "on_token_refresh"})

\* C10 as stated: in one fetch_transactions call every page request whose
\* first attempt gets 401 is followed by a re-authentication, also when an
\* earlier page request of the call went through a 401 and a retry.
C10_PerRequest ==
    outcome.result = "fetch_transactions" =>
        \A i \in DOMAIN log :
            (log[i].ev = "get" /\ log[i].status = 401 /\ FirstAttempt(i)) =>
                i < Len(log) /\ log[i + 1].ev = "sign_in"

\* the items of the pages of a script, in page order
RECURSIVE PageItems(_)
PageItems(pages) ==
    IF pages = <<>> THEN <<>> ELSE Head(pages).body \o PageItems(Tail(pages))

\* the last call was fetch_transactions and every answer it got was a 200
\* page with a JSON body
PagesOnly ==
    /\ outcome.result = "fetch_transactions"
    /\ outcome.script.api # <<>>
    /\ \A i \in DOMAIN outcome.script.api :
          outcome.script.api[i].status = 200 /\ outcome.script.api[i].parsable

\* C11: when fetch_transactions gets n >= 1 pages, pages 1..n-1 with a next_id
\* and page n without, and no 401, it sends exactly n GETs and nothing else,
\* the first without next-id and request k+1 with the next_id of page k, and
\* returns the items of the n pages concatenated in page order.
C11_Pagination ==
    PagesOnly =>
        LET pages == outcome.script.api
            n == Len(pages)
        IN /\ outcome.exc = ""
           /\ Len(log) = n
           /\ \A k \in 1..n : log[k].ev = "get" /\ log[k].status = 200
           /\ log[1].arg = ""
           /\ \A k \in 1..(n - 1) :
                 pages[k].next_id # "" /\ log[k + 1].arg = pages[k].next_id
           /\ pages[n].next_id = ""
           /\ outcome.data = PageItems(pages)

\* three pages, the first two with different items, were fetched
C11_Witness ==
    /\ PagesOnly
    /\ Len(outcome.script.api) = 3
    /\ outcome.script.api[1].body # outcome.script.api[2].body
    /\ Len(outcome.data) = 3
    /\ Len(Requests("get")) = 3

\* the methods of the client state machine
ClientOps == {"__aenter__", "_ensure_token", "fetch_units", "fetch_transactions", "__aexit__"}

\* the token the client of the last call held when the call began: __aenter__
\* runs on a new client, which holds none
HeldBefore == IF outcome.result = "__aenter__" THEN "" ELSE outcome.before

\* the sign-in request logged at i was answered with a 2xx status and the cookie
SignInSucceeded(i) == IsSuccess(log[i].status) /\ log[i].arg # ""

\* C12: in every client call, a sign-in request that is answered with a
\* transport error, a non-2xx status or without the auth cookie is the last
\* thing the call does (no second sign-in request, no refresh callback, no
\* further request): the call raises, and the client holds the token it held
\* before the call (none when it had none).
C12_SignInFails ==
    outcome.result \in ClientOps =>
        \A i \in DOMAIN log :
            (log[i].ev = "sign_in" /\ ~SignInSucceeded(i)) =>
                /\ i = Len(log)
                /\ outcome.exc = (IF log[i].status = 0 THEN "TransportError"
                                  ELSE IF ~IsSuccess(log[i].status) THEN "HTTPStatusError"
                                  ELSE "ValueError")
                /\ tms.cookie_value = HeldBefore

\* a refresh inside fetch_units whose sign-in got 200 without the cookie
C12_Witness ==
    /\ outcome.result = "fetch_units"
    /\ Len(log) = 2
    /\ log[2].ev = "sign_in" /\ log[2].status = 200 /\ log[2].arg = ""
    /\ outcome.exc = "ValueError"
    /\ tms.cookie_value = outcome.before /\ outcome.before # ""

\* C13: _ensure_token (alone or inside __aenter__) on a client without a token
\* sends exactly one sign-in request and nothing else, and when that sign-in
\* succeeds the client holds its token; on a client that holds a token it
\* sends nothing, raises nothing and leaves the token as it is.
C13_EnsureToken ==
    outcome.result \in {"__aenter__", "_ensure_token"} =>
        IF HeldBefore = ""
        THEN /\ Len(log) = 1 /\ log[1].ev = "sign_in"
             /\ SignInSucceeded(1) =>
                   outcome.exc = "" /\ tms.cookie_value = log[1].arg
             /\ ~SignInSucceeded(1) => tms.cookie_value = ""
        ELSE /\ log = <<>>
             /\ outcome.exc = ""
             /\ tms.cookie_value = HeldBefore

\* _ensure_token called again on a client that holds a token
C13_Witness ==
    /\ outcome.result = "_ensure_token"
    /\ outcome.before # ""
    /\ log = <<>>
    /\ tms.cookie_value = outcome.before

(***************************************************************************)
(* State machine of the pure functions of app/formatters.py and of         *)
(* _fingerprint: one call of _norm_status, of _worst (with the calls of    *)
(* the two ways to combine three statuses) or of the evaluator, on inputs  *)
(* drawn from the sets below.  outcome holds the call and what it gave.    *)
(***************************************************************************)
\* raw status values as the feed may carry them
RawStatuses == {NONE, "", "  ", "ok", "OK", " Warning ", "ERROR", "Alarm", "offline"}

\* normalised statuses, with and without a rank of their own
Statuses == {"ok", "online", "warning", "offline", "alarm", "error", "unknown", ""}

\* top-level status.type and status.online_type
TopStatuses == {NONE, "ERROR", "Alarm", " Warning "}

SuppressedModule == Module("modem", " Warning ", "Connection Failed ", <<>>)

\* modules of a unit: clean, offline, suppressed warning, other warning, a
\* clean parent of a suppressed warning, an alarm with an offline child
SampleModules ==
    { Module("door", "OK", NONE, <<>>),
      Module("pump", "offline", NONE, <<>>),
      SuppressedModule,
      Module("soap", "warning", "low level", <<>>),
      Module("box", NONE, NONE, <<SuppressedModule>>),
      Module("bay", "Alarm", NONE, <<Module("pump", "offline", NONE, <<>>)>>) }

\* a module that reports itself as online
OnlineModule == Module("relay", "online", NONE, <<>>)

\* the module lists under status.modules
StatusModuleLists ==
    { <<>>, <<SuppressedModule>>, <<Module("pump", "offline", NONE, <<>>)>> }

EvalSnapshots ==
    { Unit(1, 0, Status(t, o, smods), mods) :
        t \in TopStatuses, o \in TopStatuses,
        smods \in StatusModuleLists,
        mods \in SeqsUpTo(SampleModules \cup {OnlineModule}, MaxModules) }

\* a module list without its suppressed warnings (leaves), at every depth
RECURSIVE StripSuppressed(_)
StripSuppressed(mods) ==
    IF mods = <<>> THEN <<>>
    ELSE LET m == Head(mods)
             rest == StripSuppressed(Tail(mods))
         IN IF m = SuppressedModule THEN rest
            ELSE <<[m EXCEPT !.modules = StripSuppressed(@)]>> \o rest

\* the same unit as the feed shows it when its suppressed warnings are gone
WithoutSuppressed(w) ==
    [w EXCEPT !.modules = StripSuppressed(@), !.status.modules = StripSuppressed(@)]

EvalFrame ==
    UNCHANGED <<cfg, prev_bad, last_poll_ok_at, now, tms, log, sent, truth,
                failedSinceOk, owedRecovered, owedChanged, jobs>>

InitEval ==
    /\ cfg \in {c \in Configs : MissingSetting(c) = ""}
    /\ prev_bad = <<>>
    /\ last_poll_ok_at = 0
    /\ now = 0
    /\ tms = NewClient(TRUE)
    /\ log = <<>>
    /\ sent = <<>>
    /\ outcome = [result |-> "none"]
    /\ truth = <<>>
    /\ failedSinceOk = 0
    /\ owedRecovered = [u \in UnitIds |-> 0]
    /\ owedChanged = [u \in UnitIds |-> 0]
    /\ jobs = NoJobs

\* _norm_status(s), and _norm_status of what it returned
Normalize ==
    /\ outcome.result = "none"
    /\ \E s \in RawStatuses :
          outcome' = [result |-> "_norm_status", s |-> s, once |-> _norm_status(s),
                      twice |-> _norm_status(_norm_status(s))]
    /\ EvalFrame

\* _worst over three statuses, combined from the left and from the right
Worse ==
    /\ outcome.result = "none"
    /\ \E a, b, c \in Statuses :
          outcome' = [result |-> "_worst", a |-> a, b |-> b, c |-> c,
                      ab |-> _worst(a, b), aa |-> _worst(a, a),
                      left |-> _worst(_worst(a, b), c),
                      right |-> _worst(a, _worst(b, c))]
    /\ EvalFrame

\* the evaluator on one snapshot, and the fingerprint of the same unit without
\* its suppressed warnings
Evaluate ==
    /\ outcome.result = "none"
    /\ \E w \in EvalSnapshots :
          outcome' = [result |-> "evaluate", wash |-> w,
                      is_bad |-> is_bad_wash(w),
                      worst |-> _worst_status_for_wash(w),
                      fingerprint |-> _fingerprint(w),
                      other |-> WithoutSuppressed(w),
                      other_is_bad |-> is_bad_wash(WithoutSuppressed(w)),
                      other_fingerprint |-> _fingerprint(WithoutSuppressed(w))]
    /\ EvalFrame

\* module lists handed to the walker alone: the modules above and one whose
\* status is 'online'
WalkerModules == SampleModules \cup {OnlineModule}

\* _collect_problem_modules(mods, out) on an empty out
Collect ==
    /\ outcome.result = "none"
    /\ \E mods \in SeqsUpTo(WalkerModules, MaxModules) :
          outcome' = [result |-> "_collect_problem_modules", mods |-> mods,
                      out |-> _collect_problem_modules(mods, <<>>)]
    /\ EvalFrame

(***************************************************************************)
(* The walker over module objects held by reference, as Python holds them: *)
(* heap maps a reference to its object, whose "modules" key is absent or a *)
(* list of references.  Every call takes a frame; past the interpreter's   *)
(* recursion limit the call raises RecursionError.                         *)
(***************************************************************************)
RecursionLimit == 4

Refs == {"r1", "r2"}

\* the value under a "modules" key: absent, or a list of references
Absent == [absent |-> TRUE, refs |-> <<>>]
ListOf(refs) == [absent |-> FALSE, refs |-> refs]

ChildLists == {Absent, ListOf(<<>>), ListOf(<<"r1">>), ListOf(<<"r2">>),
               ListOf(<<"r1", "r2">>)}

Heaps == [Refs -> [status : {"OK", "offline"}, modules : ChildLists]]

RECURSIVE CollectByRef(_, _, _, _)
RECURSIVE CollectLoop(_, _, _, _)
\* the body of the for loop over the references left in refs
CollectLoop(heap, refs, out, depth) ==
    IF refs = <<>> THEN [out |-> out, exc |-> ""]
    ELSE LET m == heap[Head(refs)]
             st == _norm_status(m.status)
             out1 == IF st # "ok"
                     THEN Append(out, <<Head(refs), st, NONE>>)
                     ELSE out
             inner == CollectByRef(heap, m.modules, out1, depth + 1)
         IN IF inner.exc # "" THEN inner
            ELSE CollectLoop(heap, Tail(refs), inner.out, depth)

\* one call of _collect_problem_modules at the given frame depth
CollectByRef(heap, mods, out, depth) ==
    IF depth > RecursionLimit THEN [out |-> out, exc |-> "RecursionError"]
    ELSE IF mods.absent \/ mods.refs = <<>> THEN [out |-> out, exc |-> ""]
    ELSE CollectLoop(heap, mods.refs, out, depth)

\* _collect_problem_modules on objects that may contain themselves
CollectShared ==
    /\ outcome.result = "none"
    /\ \E heap \in Heaps, mods \in ChildLists :
          LET r == CollectByRef(heap, mods, <<>>, 1)
          IN outcome' = [result |-> "collect_by_ref", heap |-> heap, mods |-> mods,
                         out |-> r.out, exc |-> r.exc]
    /\ EvalFrame

\* header names as the client writes them in a request and as a header map
\* read from a response spells them
HeaderNames ==
    {"Content-Type", "Cookie", "cookie", "set-cookie", "Authorization", "authorization"}

RawToken == "tokA"

\* the value a header of that name carries
HeaderValue(name) ==
    CASE name \in {"Cookie", "cookie", "set-cookie"} -> <<"tms_v3_auth_cookie=", RawToken>>
      [] name \in {"Authorization", "authorization"} -> <<"Bearer ", RawToken>>
      [] OTHER -> <<"application/json">>

\* a header map: the names it holds, each with its value (a string is the
\* sequence of its parts)
HeaderMaps == {[n \in names |-> HeaderValue(n)] : names \in SUBSET HeaderNames}

redact_headers(h) ==
    [n \in DOMAIN h |->
        IF n = "Cookie" THEN <<"tms_v3_auth_cookie=", "***REDACTED***">>
        ELSE IF n = "Authorization" THEN <<"Bearer ", "***REDACTED***">>
        ELSE h[n]]

\* redact_headers(h) and h as it is after the call
Redact ==
    /\ outcome.result = "none"
    /\ \E h \in HeaderMaps :
          outcome' = [result |-> "redact_headers", h |-> h, r |-> redact_headers(h),
                      h_after |-> h]
    /\ EvalFrame

NextEval == Normalize \/ Worse \/ Evaluate \/ Collect \/ CollectShared \/ Redact

SpecEval == InitEval /\ [][NextEval]_vars

(***************************************************************************)
(* Claims about the pure functions                                         *)
(***************************************************************************)
\* every node of a module tree, at any depth
RECURSIVE AllNodes(_)
AllNodes(mods) ==
    UNION { {mods[i]} \cup AllNodes(mods[i].modules) : i \in DOMAIN mods }

NodesOf(w) == AllNodes(w.modules) \cup AllNodes(w.status.modules)

\* a node whose status is not clean
Unclean(m) == _norm_status(m.status) # "ok"

\* the suppression rule: status 'warning' with text 'connection failed',
\* ignoring case and surrounding whitespace
MatchesRule(m) ==
    /\ StripLower(m.status) = "warning"
    /\ m.text # NONE /\ StripLower(m.text) = "connection failed"

\* the problem entries that remain after suppression
Remaining(w) == {m \in NodesOf(w) : Unclean(m) /\ ~MatchesRule(m)}

\* the rank shared by 'error' and 'alarm'
Critical(s) == SEVERITY_RANK(_norm_status(s)) = SEVERITY_RANK("error")

\* C14 as stated: is_bad is true iff a problem entry remains after suppression
\* or the top-level status or online status has the critical rank.
C14_AsStated ==
    outcome.result = "evaluate" =>
        (outcome.is_bad <=>
            \/ Remaining(outcome.wash) # {}
            \/ Critical(outcome.wash.status.type)
            \/ Critical(outcome.wash.status.online_type))

\* C14: is_bad is true iff a problem entry remains after suppression (at any
\* depth, under the unit's modules or under status.modules), or the top-level
\* status or the top-level online status normalises to 'error'; 'alarm' at the
\* top level alone does not make a unit bad.
C14_IsBad ==
    outcome.result = "evaluate" =>
        (outcome.is_bad <=>
            \/ Remaining(outcome.wash) # {}
            \/ _norm_status(outcome.wash.status.type) = "error"
            \/ _norm_status(outcome.wash.status.online_type) = "error")

\* a unit that is bad on its top-level status alone, with suppressed entries only
C14_Witness ==
    /\ outcome.result = "evaluate"
    /\ outcome.is_bad
    /\ Remaining(outcome.wash) = {}
    /\ \E m \in NodesOf(outcome.wash) : MatchesRule(m)
    /\ outcome.wash.status.online_type = "ERROR"
    /\ outcome.wash.status.type = "Alarm"

\* C16 as stated: two snapshots of a unit that differ only by entries matching
\* the suppression rule have the same fingerprint; stated for the snapshots
\* whose fingerprint the poll takes and compares, those of bad units.
C16_SuppressedInvisible ==
    (outcome.result = "evaluate" /\ outcome.is_bad /\ outcome.other_is_bad) =>
        outcome.fingerprint = outcome.other_fingerprint

\* C18 as stated: _norm_status(_norm_status(x)) = _norm_status(x) for every x.
C18_Idempotent ==
    outcome.result = "_norm_status" => outcome.twice = outcome.once

\* C19: _worst is associative and idempotent over all status values, those
\* without a rank included.
C19_Associative ==
    outcome.result = "_worst" =>
        /\ outcome.left = outcome.right
        /\ outcome.aa = outcome.a

\* three different statuses of one rank, the first of them without a rank of
\* its own
C19_Witness ==
    /\ outcome.result = "_worst"
    /\ outcome.a = "unknown" /\ outcome.b = "ok" /\ outcome.c = "online"
    /\ outcome.left = "unknown" /\ outcome.right = "unknown"

\* two different statuses of the same rank
Tie == /\ outcome.result = "_worst"
       /\ outcome.a # outcome.b
       /\ SEVERITY_RANK(outcome.a) = SEVERITY_RANK(outcome.b)

\* C20 as stated: on a tie of ranks _worst(a, b) returns b.
C20_AsStated == Tie => outcome.ab = outcome.b

\* C20: when two statuses have exactly the same rank, _worst(a, b) returns the
\* first argument a; when the ranks differ it returns the one of higher rank.
C20_FirstWinsTie ==
    outcome.result = "_worst" =>
        /\ SEVERITY_RANK(outcome.a) = SEVERITY_RANK(outcome.b) => outcome.ab = outcome.a
        /\ SEVERITY_RANK(outcome.a) > SEVERITY_RANK(outcome.b) => outcome.ab = outcome.a
        /\ SEVERITY_RANK(outcome.a) < SEVERITY_RANK(outcome.b) => outcome.ab = outcome.b

\* 'alarm' against 'error'
C20_Witness ==
    /\ Tie
    /\ outcome.a = "alarm" /\ outcome.b = "error"
    /\ outcome.ab = "alarm"

(***************************************************************************)
(* Claims about the evaluator inside the poll cycle                        *)
(***************************************************************************)
\* a unit whose only problem entries match the suppression rule and whose
\* top-level statuses are not critical
OnlySuppressed(w) ==
    /\ \E m \in NodesOf(w) : Unclean(m)
    /\ \A m \in NodesOf(w) : Unclean(m) => MatchesRule(m)
    /\ ~Critical(w.status.type) /\ ~Critical(w.status.online_type)

\* the objects a response holds for unit u
ObjectsOf(data, u) == {data[i] : i \in {j \in DOMAIN data : UnitIdOf(data[j]) = u}}

\* C15: a unit whose only problem entries match the suppression rule and whose
\* top-level statuses are not critical is not bad; after a good poll that
\* returned it (and no other object of that unit) the unit has no entry in the
\* stored table and is listed neither in the problems summary nor as 'state
\* updated', and a 'recovered' message names it only for the entry an earlier
\* bad snapshot left in the previous table.
C15_Suppressed ==
    PollOk =>
        \A i \in DOMAIN outcome.data :
            LET w == outcome.data[i]
                u == UnitIdOf(w)
            IN OnlySuppressed(w) =>
                  /\ ~IsBad(w)
                  /\ ObjectsOf(outcome.data, u) = {w} =>
                        /\ u \notin CurKeys
                        /\ u \notin ListedUnits("problems")
                        /\ u \notin ListedUnits("changed")
                        /\ u \in ListedUnits("recovered") => u \in PrevKeys

\* a good poll that returned unit 1 with a suppressed warning only, next to a
\* bad unit 2: the summary is sent and lists unit 2 alone
C15_Witness ==
    /\ PollOk
    /\ Len(outcome.data) = 2
    /\ OnlySuppressed(outcome.data[1]) /\ UnitIdOf(outcome.data[1]) = 1
    /\ IsBad(outcome.data[2])
    /\ ListedUnits("problems") = {2}
    /\ CurKeys = {2}
    /\ 1 \notin PrevKeys

RECURSIVE PreOrder(_)
PreOrder(mods) ==
    IF mods = <<>> THEN <<>>
    ELSE <<Head(mods)>> \o PreOrder(Head(mods).modules) \o PreOrder(Tail(mods))

\* a node whose normalised status has rank 0 of the severity order
RankClean(m) == SEVERITY_RANK(_norm_status(m.status)) = 0

EntryOf(m) == <<ModuleName(m), _norm_status(m.status), m.text>>

\* C21: the walker returns one entry for every node, at any depth, whose
\* normalised status does not have rank 0 of the severity order, in
\* depth-first pre-order, and so no entry iff every node has rank 0.
C21_AsStated ==
    outcome.result = "_collect_problem_modules" =>
        LET unclean == SelectSeq(PreOrder(outcome.mods), LAMBDA m : ~RankClean(m))
        IN /\ outcome.out = [i \in 1..Len(unclean) |-> EntryOf(unclean[i])]
           /\ outcome.out = <<>> <=> \A m \in AllNodes(outcome.mods) : RankClean(m)

\* C22: the walker returns on every input, also when a module is reachable
\* from itself, and a module whose child list is absent or empty contributes
\* nothing below itself.
C22_AsStated ==
    outcome.result = "collect_by_ref" =>
        /\ outcome.exc = ""
        /\ (\A r \in Refs : outcome.heap[r].modules.refs = <<>>)
              => Len(outcome.out) <= Len(outcome.mods.refs)

(***************************************************************************)
(* Revenue: models/transactions.py, aggregate_revenue and the daily report *)
(* job.  A Decimal is the integer number of its hundredths; the amounts of *)
(* the model stay far inside the 28 digits of the decimal context, where   *)
(* Decimal addition is exact.                                              *)
(***************************************************************************)
MaxTransactions == 3

\* s.replace(",", ".") over the amount strings of the model
CommaToDot(s) ==
    CASE s = "150,50" -> "150.50"
      [] s = "1,234.56" -> "1.234.56"
      [] OTHER -> s

\* Decimal(str): the value in hundredths, or decimal.InvalidOperation
Decimal(s) ==
    CASE s = "300.00" -> [exc |-> "", value |-> 30000]
      [] s = "150.50" -> [exc |-> "", value |-> 15050]
      [] s = "0.10" -> [exc |-> "", value |-> 10]
      [] s = "-50.00" -> [exc |-> "", value |-> -5000]
      [] OTHER -> [exc |-> "InvalidOperation", value |-> 0]

_to_decimal(s) ==
    IF s = NONE \/ s = "" THEN [exc |-> "", value |-> 0]
    ELSE Decimal(CommaToDot(s))

\* str.strip() and str.lower() over the issuers of the model
Strip(s) == IF s = " yandex.wash " THEN "yandex.wash" ELSE s

Lower(s) ==
    CASE s = "Yandex.Wash" -> "yandex.wash"
      [] s = "YANDEX.WASH" -> "yandex.wash"
      [] s = "VISA" -> "visa"
      [] OTHER -> s

\* what amount_and_channel returns or raises; channel is NONE for None
Returned(amount, channel) == [exc |-> "", amount |-> amount, channel |-> channel]

Parsed(d, channel) ==
    IF d.exc # "" THEN [exc |-> d.exc, amount |-> 0, channel |-> NONE]
    ELSE Returned(d.value, channel)

\* mutant: the issuer is compared as it comes
amount_and_channel_exact_issuer(p) ==
    IF ~p.approved THEN Returned(0, NONE)
    ELSE IF p.cash_body THEN Parsed(_to_decimal(p.cash_amount), "cash")
    ELSE IF p.cashless_body.present
    THEN LET amt == _to_decimal(p.cashless_amount)
         IN IF p.cashless_body.issuer = "yandex.wash" THEN Parsed(amt, "yandex_wash")
            ELSE Parsed(amt, "card")
    ELSE Returned(0, NONE)

\* a payment is [approved, cash_amount, cash_body, cashless_amount,
\* cashless_body]; cash_body tells whether the body is there, cashless_body is
\* [present, issuer]
amount_and_channel(p) ==
    IF ~p.approved THEN Returned(0, NONE)
    ELSE IF p.cash_body THEN Parsed(_to_decimal(p.cash_amount), "cash")
    ELSE IF p.cashless_body.present
    THEN LET issuer == Strip(IF Truthy(p.cashless_body.issuer)
                             THEN p.cashless_body.issuer ELSE "")
             amt == _to_decimal(p.cashless_amount)
         IN IF Lower(issuer) = "yandex.wash" THEN Parsed(amt, "yandex_wash")
            ELSE Parsed(amt, "card")
    ELSE Returned(0, NONE)

\* mutant: the cancelled flag is not looked at
revenue_amount_and_channel_any(t) == amount_and_channel(t.payment)

revenue_amount_and_channel(t) ==
    IF t.cancelled THEN Returned(0, NONE) ELSE amount_and_channel(t.payment)

RevenueReport(cash, card, yandex_wash) ==
    [cash |-> cash, card |-> card, yandex_wash |-> yandex_wash]

total(rep) == rep.cash + rep.card + rep.yandex_wash

\* mutant: an amount is counted whatever its sign
AggregateOneSigned(rep, t) ==
    LET r == revenue_amount_and_channel(t)
    IN IF r.exc # "" THEN [rep |-> rep, exc |-> r.exc]
       ELSE IF r.channel = NONE THEN [rep |-> rep, exc |-> ""]
       ELSE IF r.channel = "cash"
       THEN [rep |-> [rep EXCEPT !.cash = @ + r.amount], exc |-> ""]
       ELSE IF r.channel = "card"
       THEN [rep |-> [rep EXCEPT !.card = @ + r.amount], exc |-> ""]
       ELSE [rep |-> [rep EXCEPT !.yandex_wash = @ + r.amount], exc |-> ""]

\* mutant: a card payment is added in whole units of the currency
AggregateOneRounded(rep, t) ==
    LET r == revenue_amount_and_channel(t)
    IN IF r.exc # "" THEN [rep |-> rep, exc |-> r.exc]
       ELSE IF r.channel = NONE \/ r.amount <= 0 THEN [rep |-> rep, exc |-> ""]
       ELSE IF r.channel = "cash"
       THEN [rep |-> [rep EXCEPT !.cash = @ + r.amount], exc |-> ""]
       ELSE IF r.channel = "card"
       THEN [rep |-> [rep EXCEPT !.card = @ + (r.amount \div 100) * 100], exc |-> ""]
       ELSE [rep |-> [rep EXCEPT !.yandex_wash = @ + r.amount], exc |-> ""]

\* mutant: a record that cannot be parsed is skipped
AggregateOneSkip(rep, t) ==
    LET r == revenue_amount_and_channel(t)
    IN IF r.exc # "" THEN [rep |-> rep, exc |-> ""]
       ELSE IF r.channel = NONE \/ r.amount <= 0 THEN [rep |-> rep, exc |-> ""]
       ELSE IF r.channel = "cash"
       THEN [rep |-> [rep EXCEPT !.cash = @ + r.amount], exc |-> ""]
       ELSE IF r.channel = "card"
       THEN [rep |-> [rep EXCEPT !.card = @ + r.amount], exc |-> ""]
       ELSE [rep |-> [rep EXCEPT !.yandex_wash = @ + r.amount], exc |-> ""]

\* one iteration of the loop of aggregate_revenue
AggregateOne(rep, t) ==
    LET r == revenue_amount_and_channel(t)
    IN IF r.exc # "" THEN [rep |-> rep, exc |-> r.exc]
       ELSE IF r.channel = NONE \/ r.amount <= 0 THEN [rep |-> rep, exc |-> ""]
       ELSE IF r.channel = "cash"
       THEN [rep |-> [rep EXCEPT !.cash = @ + r.amount], exc |-> ""]
       ELSE IF r.channel = "card"
       THEN [rep |-> [rep EXCEPT !.card = @ + r.amount], exc |-> ""]
       ELSE IF r.channel = "yandex_wash"
       THEN [rep |-> [rep EXCEPT !.yandex_wash = @ + r.amount], exc |-> ""]
       ELSE [rep |-> rep, exc |-> ""]

\* the loop from the record at the head of transactions on; steps collects rep
\* as it stands after each record
RECURSIVE AggregateLoop(_, _, _)
AggregateLoop(rep, transactions, steps) ==
    IF transactions = <<>> THEN [rep |-> rep, exc |-> "", steps |-> steps]
    ELSE LET r == AggregateOne(rep, Head(transactions))
         IN IF r.exc # "" THEN [rep |-> rep, exc |-> r.exc, steps |-> steps]
            ELSE AggregateLoop(r.rep, Tail(transactions), Append(steps, r.rep))

aggregate_revenue(transactions) ==
    AggregateLoop(RevenueReport(0, 0, 0), transactions, <<RevenueReport(0, 0, 0)>>)

\* format_revenue_report_simple: the four amounts with two decimals
format_revenue_report_simple(report) ==
    <<report.cash, report.card, report.yandex_wash, total(report)>>

(***************************************************************************)
(* The daily revenue job, _send_daily_revenue_report: one run against one  *)
(* script of server responses whose pages carry the transaction records.   *)
(* main() refuses to start without GROUP_CHAT_ID, so both the report and   *)
(* the error message have a chat to go to.                                 *)
(***************************************************************************)
AmountStrings == {NONE, "", "300.00", "150,50", "0.10", "-50.00", "abc", "1,234.56"}

Issuers == {NONE, "VISA", "Yandex.Wash", "YANDEX.WASH", " yandex.wash "}

CashlessBodies ==
    {[present |-> FALSE, issuer |-> NONE]} \cup {[present |-> TRUE, issuer |-> i] : i \in Issuers}

Tx(cancelled, approved, cash_body, cash_amount, cashless_body, cashless_amount) ==
    [cancelled |-> cancelled,
     payment |-> [approved |-> approved, cash_amount |-> cash_amount,
                  cash_body |-> cash_body, cashless_amount |-> cashless_amount,
                  cashless_body |-> cashless_body]]

AllTransactions ==
    { Tx(c, a, cb, ca, lb, la) :
        c \in BOOLEAN, a \in BOOLEAN, cb \in BOOLEAN, ca \in AmountStrings,
        lb \in CashlessBodies, la \in AmountStrings }

NoBody == [present |-> FALSE, issuer |-> NONE]
Cashless(issuer) == [present |-> TRUE, issuer |-> issuer]

\* the records that lists of several are made of: cash, card, partner,
\* cancelled, not approved with an amount that does not parse, negative,
\* approved with an amount that does not parse, both bodies
SampleTransactions ==
    { Tx(FALSE, TRUE, TRUE, "300.00", NoBody, NONE),
      Tx(FALSE, TRUE, FALSE, NONE, Cashless("VISA"), "150,50"),
      Tx(FALSE, TRUE, FALSE, NONE, Cashless("Yandex.Wash"), "0.10"),
      Tx(TRUE, TRUE, TRUE, "300.00", NoBody, NONE),
      Tx(FALSE, FALSE, FALSE, NONE, Cashless("VISA"), "abc"),
      Tx(FALSE, TRUE, TRUE, "-50.00", NoBody, NONE),
      Tx(FALSE, TRUE, TRUE, "abc", NoBody, NONE),
      Tx(FALSE, TRUE, TRUE, "300.00", Cashless("VISA"), "150,50") }

TransactionLists ==
    {<<t>> : t \in AllTransactions} \cup SeqsUpTo(SampleTransactions, MaxTransactions)

SignedIn(cookie) == [status |-> 200, cookie |-> cookie]

\* the server gives the records in one page, in two pages, or after a 401 and
\* a new sign-in
RevenueScripts(txs) ==
    { [auth |-> <<SignedIn("tokA")>>, api |-> <<Page(txs, "")>>],
      [auth |-> <<SignedIn("tokA")>>,
       api |-> IF txs = <<>> THEN <<Page(<<>>, "n1"), Page(<<>>, "")>>
               ELSE <<Page(<<Head(txs)>>, "n1"), Page(Tail(txs), "")>>],
      [auth |-> <<SignedIn("tokA"), SignedIn("tokB")>>,
       api |-> <<ApiResp(401, FALSE), Page(txs, "")>>] }

\* the sign-in is rejected, or the request fails
FailingScripts ==
    { [auth |-> <<[status |-> 401, cookie |-> ""]>>, api |-> <<>>],
      [auth |-> <<SignedIn("tokA")>>, api |-> <<ApiResp(500, FALSE)>>] }

\* lines 207-216: async with TMSClient(...) as tms: fetch_transactions(...)
WithClientFetchTransactions(script) ==
    LET c0 == Call(NewClient(TRUE), script)
        c1 == __aenter__(c0)
    IN IF c1.exc # "" THEN c1 ELSE __aexit__(fetch_transactions(c1, FALSE))

\* what the last run of the job did: the records fetched, the report or the
\* exception of aggregate_revenue, the report after each record
RevenueOutcome(result, exc, transactions, agg) ==
    [result |-> result, exc |-> exc, transactions |-> transactions,
     rep |-> agg.rep, steps |-> agg.steps]

InitRevenue ==
    /\ cfg \in {c \in Configs : MissingSetting(c) = ""}
    /\ prev_bad = <<>>
    /\ last_poll_ok_at = 0
    /\ now = 0
    /\ tms = NewClient(TRUE)
    /\ log = <<>>
    /\ sent = <<>>
    /\ outcome = [result |-> "none"]
    /\ truth = <<>>
    /\ failedSinceOk = 0
    /\ owedRecovered = [u \in UnitIds |-> 0]
    /\ owedChanged = [u \in UnitIds |-> 0]
    /\ jobs = NoJobs

\* lines 206-230 for one script: fetch, validate, aggregate, format, send; any
\* exception ends in the one error message of the except clause.  The records
\* of the model are well-typed, so model_validate hands them on as they are.
DailyReport(script) ==
    LET c == WithClientFetchTransactions(script)
        agg == aggregate_revenue(c.ret)
    IN /\ tms' = ClientOf(c)
       /\ log' = c.log
       /\ IF c.exc # ""
          THEN /\ sent' = TokenMessages(c.log) \o <<Message("revenue_error", <<>>)>>
               /\ outcome' = RevenueOutcome("fetch_error", c.exc, <<>>,
                                            aggregate_revenue(<<>>))
          ELSE IF agg.exc # ""
          THEN /\ sent' = TokenMessages(c.log) \o <<Message("revenue_error", <<>>)>>
               /\ outcome' = RevenueOutcome("error", agg.exc, c.ret, agg)
          ELSE /\ sent' = TokenMessages(c.log)
                          \o <<Message("revenue", format_revenue_report_simple(agg.rep))>>
               /\ outcome' = RevenueOutcome("report", "", c.ret, agg)
       /\ UNCHANGED <<cfg, prev_bad, last_poll_ok_at, now, truth, failedSinceOk,
                      owedRecovered, owedChanged, jobs>>

_send_daily_revenue_report ==
    /\ outcome.result = "none"
    /\ \/ \E txs \in TransactionLists : \E s \in RevenueScripts(txs) : DailyReport(s)
       \/ \E s \in FailingScripts : DailyReport(s)

NextRevenue == _send_daily_revenue_report

SpecRevenue == InitRevenue /\ [][NextRevenue]_vars

(***************************************************************************)
(* Revenue: the claims                                                     *)
(***************************************************************************)
\* aggregate_revenue ran: to its end, or up to the record that raised
Aggregated == outcome.result \in {"report", "error"}

\* the records the loop went through without raising
Processed == 1..(Len(outcome.steps) - 1)

Before(i) == outcome.steps[i]
After(i) == outcome.steps[i + 1]

Skipped(t) == t.cancelled \/ ~t.payment.approved

\* the amount string the bodies of a record select: cash first
SelectedAmount(t) ==
    IF t.payment.cash_body THEN t.payment.cash_amount
    ELSE IF t.payment.cashless_body.present THEN t.payment.cashless_amount
    ELSE NONE

MalformedAmounts == {"abc", "1,234.56"}

\* C23: a record that is cancelled or whose payment is not approved leaves
\* every channel total as it was, whatever amounts, bodies or issuer it has.
C23_SkippedFrame ==
    Aggregated =>
        \A i \in Processed : Skipped(outcome.transactions[i]) => After(i) = Before(i)

\* the report was sent for a list whose second record is cancelled with a cash
\* body and an amount; the totals are those of the first record alone
C23_Witness ==
    /\ outcome.result = "report"
    /\ Len(outcome.transactions) = 2
    /\ ~Skipped(outcome.transactions[1])
    /\ outcome.transactions[2].cancelled
    /\ outcome.transactions[2].payment.cash_body
    /\ outcome.transactions[2].payment.cash_amount = "300.00"
    /\ outcome.rep = RevenueReport(0, 15050, 0)

\* rep with amount added to one channel
Plus(rep, channel, amount) ==
    CASE channel = "cash" -> [rep EXCEPT !.cash = @ + amount]
      [] channel = "card" -> [rep EXCEPT !.card = @ + amount]
      [] channel = "yandex_wash" -> [rep EXCEPT !.yandex_wash = @ + amount]

CountedAmount(t, channel) ==
    LET r == revenue_amount_and_channel(t)
    IN IF r.exc = "" /\ r.channel = channel /\ r.amount > 0 THEN r.amount ELSE 0

RECURSIVE SumOf(_, _)
SumOf(txs, channel) ==
    IF txs = <<>> THEN 0 ELSE CountedAmount(Head(txs), channel) + SumOf(Tail(txs), channel)

Channels == {"cash", "card", "yandex_wash"}

\* the lists with the same records in another order
Reorderings(txs) ==
    { [i \in DOMAIN txs |-> txs[f[i]]] :
        f \in {g \in [DOMAIN txs -> DOMAIN txs] : \A i, j \in DOMAIN txs : i # j => g[i] # g[j]} }

\* C25: in the report that is sent, the total is cash + card + partner and is
\* the exact sum of the amounts of the counted records; each channel holds the
\* sum of the records counted for it, and every order of the records gives
\* the same report.
C25_ExactSum ==
    outcome.result = "report" =>
        LET lines == sent[Len(sent)].lines
            txs == outcome.transactions
        IN /\ lines[4] = lines[1] + lines[2] + lines[3]
           /\ lines[1] = SumOf(txs, "cash")
           /\ lines[2] = SumOf(txs, "card")
           /\ lines[3] = SumOf(txs, "yandex_wash")
           /\ lines[4] = SumOf(txs, "cash") + SumOf(txs, "card") + SumOf(txs, "yandex_wash")
           /\ \A other \in Reorderings(txs) : aggregate_revenue(other).rep = outcome.rep

\* a report over one record of each channel
C25_Witness ==
    /\ outcome.result = "report"
    /\ Len(outcome.transactions) = 3
    /\ outcome.rep = RevenueReport(30000, 15050, 10)
    /\ sent[Len(sent)].lines = <<30000, 15050, 10, 45060>>

ChannelValue(rep, ch) ==
    CASE ch = "cash" -> rep.cash
      [] ch = "card" -> rep.card
      [] ch = "yandex_wash" -> rep.yandex_wash

\* C26: while the list is processed no channel total is negative or goes
\* down, a record changes at most one channel, and a record whose amount is
\* zero or negative changes none.
C26_Monotone ==
    Aggregated =>
        /\ \A i \in DOMAIN outcome.steps :
              \A ch \in Channels : ChannelValue(Before(i), ch) >= 0
        /\ \A i \in Processed :
              /\ \A ch \in Channels :
                    ChannelValue(After(i), ch) >= ChannelValue(Before(i), ch)
              /\ Cardinality({ch \in Channels :
                    ChannelValue(After(i), ch) # ChannelValue(Before(i), ch)}) <= 1
              /\ _to_decimal(SelectedAmount(outcome.transactions[i])).value <= 0
                    => After(i) = Before(i)

\* a cash record of 300.00 was followed by a cash record of -50.00: the second
\* left the totals as they were
C26_Witness ==
    /\ outcome.result = "report"
    /\ Len(outcome.transactions) = 2
    /\ outcome.transactions[2].payment.cash_amount = "-50.00"
    /\ ~Skipped(outcome.transactions[2])
    /\ outcome.steps = <<RevenueReport(0, 0, 0), RevenueReport(30000, 0, 0),
                         RevenueReport(30000, 0, 0)>>

\* a record that is counted and whose selected amount does not parse
FailsToParse(t) == ~Skipped(t) /\ SelectedAmount(t) \in MalformedAmounts

\* C27: aggregate_revenue raises iff some approved, non-cancelled record
\* selects an amount that does not parse; the job then sends one error
\* message and no report.  An amount that does not parse on a cancelled or
\* non-approved record, or one that no body selects, raises nothing: the
\* report is sent.
C27_BatchAbort ==
    Aggregated =>
        /\ outcome.result = "error"
              <=> \E i \in DOMAIN outcome.transactions : FailsToParse(outcome.transactions[i])
        /\ outcome.result = "error" =>
              /\ NumMsgs("revenue_error") = 1
              /\ NumMsgs("revenue") = 0
              /\ FailsToParse(outcome.transactions[Len(outcome.steps)])
        /\ outcome.result = "report" =>
              /\ NumMsgs("revenue_error") = 0
              /\ NumMsgs("revenue") = 1

\* the second record is approved cash with an amount that does not parse, after
\* a record that was counted and a skipped one whose amount does not parse
\* either: the error message is the only message
C27_Witness ==
    /\ outcome.result = "error"
    /\ Len(outcome.transactions) = 3
    /\ Skipped(outcome.transactions[1])
    /\ SelectedAmount(outcome.transactions[1]) \in MalformedAmounts
    /\ outcome.steps[2] = RevenueReport(0, 0, 0)
    /\ Len(outcome.steps) = 3
    /\ FailsToParse(outcome.transactions[3])
    /\ NumMsgs("revenue_error") = 1 /\ NumMsgs("revenue") = 0

(***************************************************************************)
(* Claims about the redaction helper                                       *)
(***************************************************************************)
ContainsToken(value) == \E i \in DOMAIN value : value[i] = RawToken

\* C28: whatever the letter case of the header names, no value of the map
\* redact_headers returns contains the raw token; a map without a credential
\* is returned as it is, and the map passed in is not modified.
C28_AsStated ==
    outcome.result = "redact_headers" =>
        /\ \A n \in DOMAIN outcome.r : ~ContainsToken(outcome.r[n])
        /\ (\A n \in DOMAIN outcome.h : ~ContainsToken(outcome.h[n]))
              => outcome.r = outcome.h
        /\ outcome.h_after = outcome.h

(***************************************************************************)
(* Claims about pagination and the refresh callback                        *)
(***************************************************************************)
\* the response to the GET logged at i: the k-th GET of a call reads the k-th
\* API response of its script
RespOf(i) ==
    outcome.script.api[Cardinality({j \in 1..i : log[j].ev = "get"})]

LastPage(r) == IsSuccess(r.status) /\ r.parsable /\ r.next_id = ""
MorePages(r) == IsSuccess(r.status) /\ r.parsable /\ r.next_id # ""
ErrorStatus(r) == r.status # 0 /\ ~IsSuccess(r.status)

\* the call ended with the event logged at i
EndedAt(i) == i = Len(log)

\* C29 as stated: the call returns when a GET is answered with a page without
\* next_id and raises when it is answered with an error status; a page with a
\* next_id is always followed by another GET.
C29_AsStated ==
    outcome.result = "fetch_transactions" =>
        \A i \in DOMAIN log :
            log[i].ev = "get" =>
                /\ LastPage(RespOf(i)) => EndedAt(i) /\ outcome.exc = ""
                /\ ErrorStatus(RespOf(i)) => EndedAt(i) /\ outcome.exc # ""
                /\ MorePages(RespOf(i)) => ~EndedAt(i) /\ log[i + 1].ev = "get"

\* the first 401 of a call: no re-sign-in came before it
First401(i) ==
    /\ log[i].status = 401
    /\ \A j \in 1..(i - 1) : log[j].ev # "sign_in"

\* C29: fetch_transactions returns when a GET is answered with a page that
\* has no next_id and raises when a GET is answered with an error status,
\* except for the first 401 of the call, which is answered by one re-sign-in
\* after which (when it succeeds) the call starts again from the first page;
\* there is no page ceiling: every page with a non-empty next_id is followed
\* by another GET that carries it.
C29_Terminates ==
    outcome.result = "fetch_transactions" =>
        \A i \in DOMAIN log :
            log[i].ev = "get" =>
                /\ LastPage(RespOf(i)) => EndedAt(i) /\ outcome.exc = ""
                /\ (ErrorStatus(RespOf(i)) /\ ~First401(i))
                      => EndedAt(i) /\ outcome.exc = "HTTPStatusError"
                /\ (ErrorStatus(RespOf(i)) /\ First401(i)) =>
                      /\ ~EndedAt(i) /\ log[i + 1].ev = "sign_in"
                      /\ SignInSucceeded(i + 1) =>
                            \E j \in (i + 2)..Len(log) :
                               /\ log[j].ev = "get" /\ log[j].arg = ""
                               /\ \A k \in (i + 2)..(j - 1) : log[k].ev = "on_token_refresh"
                      /\ ~SignInSucceeded(i + 1) => EndedAt(i + 1) /\ outcome.exc # ""
                /\ MorePages(RespOf(i)) =>
                      /\ ~EndedAt(i)
                      /\ log[i + 1].ev = "get"
                      /\ log[i + 1].arg = RespOf(i).next_id

\* a call that went through as many pages as the script can hold, each but
\* the last with a next_id, and returned after the last
C29_Witness ==
    /\ outcome.result = "fetch_transactions"
    /\ Len(outcome.script.api) = MaxRequests
    /\ \A k \in 1..(MaxRequests - 1) : MorePages(outcome.script.api[k])
    /\ LastPage(outcome.script.api[MaxRequests])
    /\ Len(Requests("get")) = MaxRequests
    /\ outcome.exc = ""

\* C30: on a client with a refresh callback, every re-sign-in that succeeds is
\* followed at once by one invocation of the callback, made when the new token
\* is already stored, and then by the retried request with the new token; the
\* callback is invoked nowhere else: not by the sign-in of __aenter__ or
\* _ensure_token, and not after a re-sign-in that failed.
C30_Callback ==
    outcome.result \in ClientOps =>
        /\ \A i \in DOMAIN log :
              /\ log[i].ev = "on_token_refresh" =>
                    /\ outcome.result \in {"fetch_units", "fetch_transactions"}
                    /\ i > 2
                    /\ log[i - 1].ev = "sign_in" /\ SignInSucceeded(i - 1)
                    /\ log[i - 2].ev \in {"post", "get"} /\ log[i - 2].status = 401
                    /\ log[i].tok = log[i - 1].arg
                    /\ i < Len(log)
                    /\ log[i + 1].ev = log[i - 2].ev
                    /\ log[i + 1].tok = log[i - 1].arg
              /\ ( /\ log[i].ev = "sign_in" /\ SignInSucceeded(i)
                   /\ outcome.result \in {"fetch_units", "fetch_transactions"}
                   /\ tms.on_token_refresh )
                    => i < Len(log) /\ log[i + 1].ev = "on_token_refresh"
        /\ Len(Requests("on_token_refresh"))
              = IF tms.on_token_refresh
                THEN Len(SelectSeq(log, LAMBDA e :
                            /\ e.ev = "sign_in" /\ IsSuccess(e.status) /\ e.arg # ""
                            /\ outcome.result \in {"fetch_units", "fetch_transactions"}))
                ELSE 0

\* a fetch_transactions call whose first GET got 401: the sign-in gave a new
\* token, the callback saw it stored, and the GET was sent again with it
C30_Witness ==
    /\ outcome.result = "fetch_transactions"
    /\ tms.on_token_refresh
    /\ Len(log) >= 4
    /\ log[1].ev = "get" /\ log[1].status = 401
    /\ log[2].ev = "sign_in" /\ log[2].arg = "tokB"
    /\ log[3].ev = "on_token_refresh" /\ log[3].tok = "tokB"
    /\ log[4].ev = "get" /\ log[4].tok = "tokB"
    /\ outcome.before = "tokA"
    /\ Len(Requests("on_token_refresh")) = 1

\* the number of GETs among the first i events of the call
GetsUpTo(i) == Cardinality({j \in 1..i : log[j].ev = "get"})

\* C32: when a GET after the first of a fetch_transactions call gets 401 and
\* the call has not re-authenticated before, the client signs in once; when
\* that sign-in succeeds, the next GET carries the new token and no next-id,
\* no further sign-in follows, and a call that returns gives the items of the
\* pages fetched after the 401, each once, with none of the items gathered
\* before it.
C32_Restart ==
    outcome.result = "fetch_transactions" =>
        \A i \in DOMAIN log :
            (i > 1 /\ log[i].ev = "get" /\ First401(i)) =>
                /\ i < Len(log) /\ log[i + 1].ev = "sign_in"
                /\ Len(Requests("sign_in")) = 1
                /\ SignInSucceeded(i + 1) =>
                      LET j == IF tms.on_token_refresh THEN i + 3 ELSE i + 2
                      IN /\ j <= Len(log)
                         /\ log[j].ev = "get" /\ log[j].arg = ""
                         /\ log[j].tok = log[i + 1].arg
                         /\ tms.cookie_value = log[i + 1].arg
                         /\ outcome.exc = "" =>
                               outcome.data =
                                  PageItems(SubSeq(outcome.script.api, GetsUpTo(i) + 1,
                                                   Len(outcome.script.api)))

\* the second GET got 401 after a page with items; after the sign-in two pages
\* were fetched and the call returned their items alone
C32_Witness ==
    /\ outcome.result = "fetch_transactions"
    /\ Len(outcome.script.api) = 4
    /\ MorePages(outcome.script.api[1]) /\ outcome.script.api[1].body = <<"t1">>
    /\ outcome.script.api[2].status = 401
    /\ MorePages(outcome.script.api[3])
    /\ LastPage(outcome.script.api[4])
    /\ outcome.exc = ""
    /\ outcome.data = outcome.script.api[3].body \o outcome.script.api[4].body
    /\ Len(outcome.data) = 2

(***************************************************************************)
(* _poll_and_send from await to await.  An invocation runs without         *)
(* interruption from one await to the next; while it is suspended at the   *)
(* fetch or at a send_message, another invocation started by the job queue *)
(* may run.  Here sent collects the messages of all invocations in the     *)
(* order they were delivered.                                              *)
(***************************************************************************)
\* the unit arrays the server answers with
StepResponses ==
    {<<>>} \cup {<<w>> : w \in PollSnapshots}
    \cup {<<Unit(1, 0, CleanStatus, <<Module("pump", "offline", NONE, <<>>)>>),
            Unit(0, 2, CleanStatus, <<Module("pump", "offline", NONE, <<>>)>>)>>}

\* the server during the with-block: sign-in and fetch answered; the token
\* rejected once and renewed; the sign-in refused; the fetch refused
StepScripts ==
    LET signed == [status |-> 200, cookie |-> "tokA"]
    IN { [auth |-> <<signed>>, api |-> <<ApiResp(200, TRUE)>>],
         [auth |-> <<signed, signed>>, api |-> <<ApiResp(401, FALSE), ApiResp(200, TRUE)>>],
         [auth |-> <<[status |-> 500, cookie |-> ""]>>, api |-> <<>>],
         [auth |-> <<signed>>, api |-> <<ApiResp(500, FALSE)>>] }

\* lines 122-164: the order of the steps after the fetch
StageAfter(stage) ==
    CASE stage = "problems" -> "recovered"
      [] stage = "recovered" -> "changed"
      [] OTHER -> "store"

\* lines 122-164 from one await to the next: from the stage reached, with the
\* table as it stands at that moment, the next message to send, or none when
\* the handler runs through to the assignment of line 164
RECURSIVE NextSend(_, _, _, _)
NextSend(stage, data, current_bad, prev) ==
    LET msg == CASE stage = "problems" -> ProblemsMessage(data, current_bad)
                 [] stage = "recovered" -> RecoveredMessage(prev, current_bad)
                 [] stage = "changed" -> ChangedMessage(prev, current_bad)
                 [] OTHER -> <<>>
    IN IF stage = "store" THEN [stage |-> "store", pending |-> <<>>]
       ELSE IF msg # <<>> THEN [stage |-> stage, pending |-> msg]
       ELSE NextSend(StageAfter(stage), data, current_bad, prev)

\* mutant: an exception does not leave the try block
RaisedIgnored(exc, stage) == stage

\* lines 99, 168: whatever is raised inside the try block goes to the except
\* clause; otherwise the handler goes on with the stage that follows
Raised(exc, stage) == IF exc # "" THEN "error" ELSE stage

\* mutant: the table of an invocation is dropped when an invocation that
\* fetched later has already written its table
StoredTableNewest(prev, job) ==
    IF \E k \in Jobs : jobs[k].stored > 0 /\ jobs[k].fetched > job.fetched
    THEN prev
    ELSE job.current_bad

\* line 164
StoredTable(prev, job) == job.current_bad

\* the invocation runs on from the stage reached to its next await, or to its
\* end (lines 164-166)
Proceed(j, job, stage) ==
    IF stage = "error"
    THEN /\ jobs' = [jobs EXCEPT ![j] =
                        [job EXCEPT !.pc = "sending", !.stage = "error",
                                    !.pending = <<Message("error", <<>>)>>]]
         /\ UNCHANGED <<prev_bad, last_poll_ok_at>>
    ELSE LET n == NextSend(stage, job.data, job.current_bad, prev_bad)
             writes == Cardinality({k \in Jobs : jobs[k].stored > 0})
         IN IF n.stage = "store"
            THEN /\ prev_bad' = StoredTable(prev_bad, job)
                 /\ last_poll_ok_at' = now'
                 /\ jobs' = [jobs EXCEPT ![j] =
                                [job EXCEPT !.pc = "done", !.stage = "",
                                            !.pending = <<>>, !.stored = writes + 1]]
            ELSE /\ jobs' = [jobs EXCEPT ![j] =
                                [job EXCEPT !.pc = "sending", !.stage = n.stage,
                                            !.pending = n.pending]]
                 /\ UNCHANGED <<prev_bad, last_poll_ok_at>>

\* lines 81-120: the invocation starts, the with-block runs against the
\* server, and the handler goes on to its first send.  The message of
\* _notify_token_refresh is sent inside the fetch; when that send fails, the
\* exception ends the fetch where the callback was awaited.
Fetch(j, script, data, delivered) ==
    LET c == WithClientFetchUnits(FillBody(script, data))
        cb == {i \in DOMAIN c.log : c.log[i].ev = "on_token_refresh"}
        lost == cb # {} /\ ~delivered
        exc == IF lost THEN "SendError" ELSE c.exc
        fetches == Cardinality({k \in Jobs : jobs[k].fetched > 0})
        job == [jobs[j] EXCEPT
                   !.data = IF exc = "" THEN c.ret ELSE <<>>,
                   !.current_bad = IF exc = "" THEN BuildCurrentBad(c.ret, <<>>) ELSE <<>>,
                   !.exc = exc,
                   !.fetched = fetches + 1]
    IN /\ jobs[j].pc = "idle"
       /\ MissingSetting(cfg) = ""
       /\ tms' = ClientOf(c)
       /\ log' = IF lost THEN SubSeq(c.log, 1, Last(cb)) ELSE c.log
       /\ sent' = IF lost THEN sent ELSE sent \o TokenMessages(c.log)
       /\ Proceed(j, job, Raised(exc, "problems"))

\* the send_message an invocation is suspended at completes or raises
Resume(j, delivered) ==
    LET job == jobs[j]
        exc == IF delivered THEN "" ELSE "SendError"
    IN /\ job.pc = "sending"
       /\ sent' = IF delivered THEN sent \o job.pending ELSE sent
       /\ UNCHANGED <<tms, log>>
       /\ IF job.stage = "error"
          THEN \* line 170 was the last statement
               /\ jobs' = [jobs EXCEPT ![j] =
                              [job EXCEPT !.pc = "done", !.stage = "", !.pending = <<>>]]
               /\ UNCHANGED <<prev_bad, last_poll_ok_at>>
          ELSE Proceed(j, [job EXCEPT !.exc = IF delivered THEN @ ELSE exc],
                       Raised(exc, StageAfter(job.stage)))

\* the tables a good poll can have left behind
InitSteps ==
    /\ cfg \in {c \in Configs : MissingSetting(c) = ""}
    /\ prev_bad \in {BuildCurrentBad(d, <<>>) : d \in StepResponses}
    /\ last_poll_ok_at \in (IF prev_bad = <<>> THEN {0, 1} ELSE {1})
    /\ now = 1
    /\ tms = NewClient(TRUE)
    /\ log = <<>>
    /\ sent = <<>>
    /\ outcome = [result |-> "none"]
    /\ truth = <<>>
    /\ failedSinceOk = 0
    /\ owedRecovered = [u \in UnitIds |-> 0]
    /\ owedChanged = [u \in UnitIds |-> 0]
    /\ jobs = NoJobs

NextSteps ==
    /\ now' = now + 1
    /\ UNCHANGED <<cfg, outcome, truth, failedSinceOk, owedRecovered, owedChanged>>
    /\ \E j \in Jobs :
          \/ \E s \in StepScripts : \E data \in StepResponses : \E delivered \in BOOLEAN :
                Fetch(j, s, data, delivered)
          \/ \E delivered \in BOOLEAN : Resume(j, delivered)

SpecSteps == InitSteps /\ [][NextSteps]_vars

(***************************************************************************)
(* Further claims about the poll cycle                                     *)
(***************************************************************************)
\* C34 as stated: a 'recovered' message names a unit only if the response
\* holds a snapshot of that unit that is evaluated as not bad.
C34_AsStated ==
    PollOk =>
        \A u \in ListedUnits("recovered") :
            \E w \in ObjectsOf(outcome.data, u) : ~IsBad(w)

\* C34: a 'recovered' message names a unit only if the unit is in the previous
\* table and the response holds no snapshot of it that is evaluated as bad; a
\* previously bad unit that is missing from the response is announced as
\* recovered.
C34_RecoveredMissing ==
    PollOk =>
        /\ \A u \in ListedUnits("recovered") :
              u \in PrevKeys /\ BadAt(outcome.data, u) = {}
        /\ \A u \in PrevKeys :
              ObjectsOf(outcome.data, u) = {} => Listed(sent, "recovered", u) = 1

\* units 1 and 2 were bad; the response holds unit 1 alone, still bad, and
\* unit 2 is announced as recovered
C34_Witness ==
    /\ PollOk
    /\ PrevKeys = {1, 2}
    /\ Len(outcome.data) = 1
    /\ UnitIdOf(outcome.data[1]) = 1 /\ IsBad(outcome.data[1])
    /\ ListedUnits("recovered") = {2}

(***************************************************************************)
(* Further claims about the evaluator                                      *)
(***************************************************************************)
\* C35: a unit for which is_bad holds has a worst severity of at least the
\* warning rank.
C35_AsStated ==
    outcome.result = "evaluate" =>
        (outcome.is_bad => SEVERITY_RANK(outcome.worst) >= SEVERITY_RANK("warning"))

(***************************************************************************)
(* The lifetime of the HTTP client                                         *)
(***************************************************************************)
\* C36: when a poll cycle has ended, on whatever path, the HTTP client that
\* its TMSClient opened has been closed and the reference to it cleared.
C36_AsStated ==
    (PollOk \/ PollFailed) => ~tms.http

(***************************************************************************)
(* Claims about the invocation from await to await                         *)
(***************************************************************************)
\* C33: the stored table and the time of the last good poll change only in
\* the step in which an invocation ends after its fetch and every one of its
\* sends went through without an exception, and then both are written, the
\* table with that invocation's current_bad and the time with the clock; an
\* invocation in which something was raised ends with both left as they were.
C33_WrittenTogether ==
    [][ /\ (prev_bad' # prev_bad \/ last_poll_ok_at' # last_poll_ok_at) =>
              \E j \in Jobs :
                  /\ jobs[j].pc # "done" /\ jobs'[j].pc = "done"
                  /\ jobs'[j].exc = ""
        /\ \A j \in Jobs :
              (jobs[j].pc # "done" /\ jobs'[j].pc = "done") =>
                  IF jobs'[j].exc = ""
                  THEN /\ prev_bad' = jobs'[j].current_bad
                       /\ last_poll_ok_at' = now'
                       /\ last_poll_ok_at' # last_poll_ok_at
                  ELSE /\ prev_bad' = prev_bad
                       /\ last_poll_ok_at' = last_poll_ok_at
      ]_vars

\* an invocation fetched a bad unit, delivered the summary of the problems,
\* failed to deliver a later message, and ended with the table and the time
\* as they were before it started
C33_Witness ==
    \E j \in Jobs :
        /\ jobs[j].pc = "done" /\ jobs[j].exc = "SendError"
        /\ jobs[j].current_bad # <<>>
        /\ \A k \in Jobs \ {j} : jobs[k].pc = "idle"
        /\ \E i \in DOMAIN sent : sent[i].kind = "problems"
        /\ \E i \in DOMAIN sent : sent[i].kind = "error"
        /\ prev_bad # jobs[j].current_bad
        /\ last_poll_ok_at = 1

\* C31: nothing keeps two invocations apart: the table holds the current_bad
\* of the invocation that wrote last, whichever of them fetched first.
C31_LastWriteWins ==
    \A j \in Jobs :
        (jobs[j].stored > 0 /\ \A k \in Jobs : jobs[k].stored <= jobs[j].stored)
            => prev_bad = jobs[j].current_bad

\* two invocations overlapped: both compared with the same previous table, so
\* that the one recovery of a unit was listed twice, and the invocation that
\* fetched first wrote its table last, over the table of the later fetch
C31_Witness ==
    \E j, k \in Jobs :
        /\ jobs[j].pc = "done" /\ jobs[k].pc = "done"
        /\ jobs[j].exc = "" /\ jobs[k].exc = ""
        /\ jobs[j].fetched < jobs[k].fetched
        /\ jobs[j].stored > jobs[k].stored
        /\ jobs[j].current_bad # jobs[k].current_bad
        /\ prev_bad = jobs[j].current_bad
        /\ \E u \in UnitIds : Listed(sent, "recovered", u) > 1

====
